---- MODULE Spec2Model ----
(***************************************************************************)
(* Model of the financing calculator (calculo-tasas-cuotas-tc).            *)
(*                                                                         *)
(* Three variants of calcularFinanciamiento live in the repository:        *)
(*   "FiservV1"   src/src/utils/financial-calculator.ts lines   1..283     *)
(*                (Method A, no fees, nothing rounded)                      *)
(*   "Procesador" src/src/utils/financial-calculator.ts lines 285..767     *)
(*                (Method B, day count 28/30/360, fees, rounding)           *)
(*   "FiservV2"   src/unnamed/part_001 lines 381..690                      *)
(*                (Method A, fees, rounding)                                *)
(*                                                                         *)
(* JavaScript numbers are modelled as exact rationals over unbounded       *)
(* naturals (limb sequences), extended with Infinity, -Infinity and NaN,   *)
(* because a division by zero in JavaScript does not throw.  The binary    *)
(* rounding error of IEEE-754 doubles is not modelled.                     *)
(***************************************************************************)
EXTENDS Integers, Sequences, FiniteSets, Bags, TLC

(***************************************************************************)
(* State.  The calculators are modules of pure functions; what changes is  *)
(* what their caller holds: the input it is about to pass, and what the    *)
(* invocations made so far returned or threw.                              *)
(***************************************************************************)
VARIABLES
  inputUsuario,  \* the CalculoFinancieroInput of the current invocation
  metodo,        \* the variant invoked: "FiservV1", "FiservV2", "Procesador"; "" before
  estado,        \* "listo" before the invocation, then "retorno" or "error"
  resultados,    \* <<ResultadoCalculos>> once returned, <<>> otherwise
  mensajeError,  \* the message of the Error thrown, "" otherwise
  pasos,         \* the steps the invocation evaluated, in order
  divisores,     \* the denominators of the divisions the invocation evaluated
  tnaUsada,      \* the resultant rate the invocation used (Undefined if none)
  temUsada,      \* the monthly rate the invocation used (Undefined if none)
  sumaRetenida,  \* the accumulator of the coefficient loops, as the last invocation left it
  previas,       \* the earlier invocations: [input, metodo, estado, resultado, error]
  llamadas,      \* the invocations in progress side by side: each one's local variables
  app,           \* the state of App: [resultados, inputUsuario, error], <<>> for null
  form           \* the state of CalculatorForm: one string per field, as its characters

vars == <<inputUsuario, metodo, estado, resultados, mensajeError, pasos, divisores,
          tnaUsada, temUsada, sumaRetenida, previas, llamadas, app, form>>

(***************************************************************************)
(* Unbounded naturals: little-endian sequences of limbs in 0..Base-1,      *)
(* without high zero limbs; zero is the empty sequence.  The operations    *)
(* work on all limbs at once (carries are looked ahead, column sums are    *)
(* bag cardinalities), so that their evaluation stays shallow.             *)
(***************************************************************************)
Base == 10 * 100

RECURSIVE NatOfInt(_)
NatOfInt(k) == IF k = 0 THEN <<>> ELSE <<k % Base>> \o NatOfInt(k \div Base)

NatOne == <<1>>

Max(S) == CHOOSE i \in S : \A j \in S : j <= i

Limb(a, i) == IF i >= 1 /\ i <= Len(a) THEN a[i] ELSE 0

\* the sequence of the values of f, a function on 1..n
Tuple(f, n) == SubSeq(f, 1, n)

\* a without its high zero limbs
NatNorm(a) ==
  IF Len(a) = 0 THEN <<>>
  ELSE IF a[Len(a)] # 0 THEN a
  ELSE LET nz == {i \in 1..Len(a) : a[i] # 0}
       IN  IF nz = {} THEN <<>> ELSE SubSeq(a, 1, Max(nz))

\* the carry, 0 or 1, into position k of the digits d, each in 0..2*Base-2:
\* the nearest lower digit that is not Base-1 decides it
NatCarry(d, k) ==
  IF k = 1 THEN 0
  ELSE IF d[k - 1] # Base - 1 THEN (IF d[k - 1] >= Base THEN 1 ELSE 0)
  ELSE LET J == {j \in 1..(k - 1) : d[j] # Base - 1}
       IN  IF J = {} THEN 0 ELSE IF d[Max(J)] >= Base THEN 1 ELSE 0

\* the natural with the digits d, each in 0..2*Base-2, the highest one 0
NatOfDigits(d) ==
  IF Len(d) = 0 THEN <<>>
  ELSE NatNorm(Tuple([k \in 1..Len(d) |-> (d[k] + NatCarry(d, k)) % Base], Len(d)))

NatAdd(a, b) ==
  LET n == IF Len(a) >= Len(b) THEN Len(a) ELSE Len(b)
  IN  NatOfDigits(Tuple([k \in 1..(n + 1) |-> Limb(a, k) + Limb(b, k)], n + 1))

\* -1, 0 or 1 as a < b, a = b, a > b
NatCmp(a, b) ==
  IF Len(a) < Len(b) THEN -1
  ELSE IF Len(a) > Len(b) THEN 1
  ELSE IF Len(a) = 0 THEN 0
  ELSE IF a[Len(a)] # b[Len(a)] THEN (IF a[Len(a)] < b[Len(a)] THEN -1 ELSE 1)
  ELSE LET D == {i \in 1..Len(a) : a[i] # b[i]}
       IN  IF D = {} THEN 0 ELSE IF a[Max(D)] < b[Max(D)] THEN -1 ELSE 1

\* the borrow, 0 or 1, into position k of the digit differences d, each in
\* -(Base-1)..Base-1: the nearest lower difference that is not 0 decides it
NatBorrow(d, k) ==
  IF k = 1 THEN 0
  ELSE IF d[k - 1] # 0 THEN (IF d[k - 1] < 0 THEN 1 ELSE 0)
  ELSE LET J == {j \in 1..(k - 1) : d[j] # 0}
       IN  IF J = {} THEN 0 ELSE IF d[Max(J)] < 0 THEN 1 ELSE 0

\* a - b for a >= b
NatSub(a, b) ==
  LET d == Tuple([k \in 1..Len(a) |-> a[k] - Limb(b, k)], Len(a))
  IN  NatNorm(Tuple([k \in 1..Len(a) |-> (d[k] - NatBorrow(d, k) + Base) % Base],
                    Len(a)))

(***************************************************************************)
(* The larger operations are arms of one recursive evaluator, Evaluar, so  *)
(* that an operation used inside another refers back to the evaluator.     *)
(* Each is used through its own name: NatMul(a, b), Add(x, y), ...         *)
(***************************************************************************)
RECURSIVE Evaluar(_, _)

NatMul(a, b) == Evaluar("NatMul", <<a, b>>)

\* <<a div b, a mod b>> for b > 0
NatDivMod(a, b) == Evaluar("NatDivMod", <<a, b>>)

\* column k of the product: the sum of the a[i] * b[j] with i + j = k + 1
NatColumn(a, b, k) ==
  BagCardinality([i \in {i \in 1..Len(a) : /\ k + 1 - i >= 1
                                          /\ k + 1 - i <= Len(b)
                                          /\ a[i] # 0
                                          /\ b[k + 1 - i] # 0}
                    |-> a[i] * b[k + 1 - i]])

\* digits below 3 * Base from columns below Base^3: each column spread over three
NatSpread3(col) ==
  Tuple([k \in 1..Len(col) |-> (col[k] % Base) + ((Limb(col, k - 1) \div Base) % Base)
                                + (Limb(col, k - 2) \div (Base * Base))], Len(col))

\* digits below Base + 2 from digits below 3 * Base: each digit spread over two
NatSpread2(e) ==
  Tuple([k \in 1..Len(e) |-> (e[k] % Base) + (Limb(e, k - 1) \div Base)], Len(e))

NatMulArm(a, b) ==
  IF Len(a) = 0 \/ Len(b) = 0 THEN <<>>
  ELSE LET col == Tuple([k \in 1..(Len(a) + Len(b)) |-> NatColumn(a, b, k)],
                        Len(a) + Len(b))
       IN  IF Len(col) = 0 THEN <<>>
           ELSE LET e == NatSpread3(col)
                IN  IF Len(e) = 0 THEN <<>> ELSE NatOfDigits(NatSpread2(e))

\* a ^ e for a machine integer e >= 0, by squaring
RECURSIVE NatPow(_, _)
NatPow(a, e) ==
  IF e = 0 THEN NatOne
  ELSE LET h == NatPow(a, e \div 2)
       IN  IF Len(h) = 0 THEN <<>>
           ELSE IF e % 2 = 1 THEN NatMul(NatMul(h, h), a) ELSE NatMul(h, h)

\* The quotient limb of r by b, for b <= r < b * Base.  It lies between the
\* quotients of their leading limbs: two limbs of b against the limbs of r at and
\* above them.
NatDigit(b, r) ==
  LET m == Len(b)
  IN  IF m = 1 THEN (Limb(r, 2) * Base + Limb(r, 1)) \div b[1]
      ELSE LET bt == b[m] * Base + b[m - 1]
               rt == (Limb(r, m + 1) * Base + Limb(r, m)) * Base + Limb(r, m - 1)
               lo == IF rt \div (bt + 1) < 1 THEN 1 ELSE rt \div (bt + 1)
               hi == IF (rt + 1) \div bt > Base - 1 THEN Base - 1 ELSE (rt + 1) \div bt
           IN  Max({q \in lo..hi : q = lo \/ NatCmp(NatMul(b, <<q>>), r) <= 0})

\* long division from limb i of a down to limb 1; q the quotient limbs found so
\* far, r the remainder so far (r < b)
RECURSIVE NatDivModFrom(_, _, _, _, _)
NatDivModFrom(a, b, i, q, r) ==
  IF i = 0 THEN <<NatNorm(q), r>>
  ELSE LET r1 == IF Len(r) = 0 /\ a[i] = 0 THEN <<>> ELSE <<a[i]>> \o r
           d  == IF NatCmp(r1, b) < 0 THEN 0 ELSE NatDigit(b, r1)
           p  == IF d = 0 THEN <<>> ELSE NatMul(b, <<d>>)
       IN  IF Len(p) = 0
           THEN NatDivModFrom(a, b, i - 1, <<0>> \o q, r1)
           ELSE NatDivModFrom(a, b, i - 1, <<d>> \o q, NatSub(r1, p))

NatDivModArm(a, b) ==
  IF NatCmp(a, b) < 0 THEN <<<<>>, a>>
  ELSE NatDivModFrom(a, b, Len(a) - Len(b) + 1, <<>>,
                     SubSeq(a, Len(a) - Len(b) + 2, Len(a)))

\* the machine integer a small natural stands for
RECURSIVE IntOfNat(_, _)
IntOfNat(a, i) == IF i > Len(a) THEN 0 ELSE a[i] + Base * IntOfNat(a, i + 1)

(***************************************************************************)
(* JavaScript numbers.  A finite number is the fraction s * n / d (s the   *)
(* sign, 0 exactly for zero; the fraction need not be in lowest terms, so  *)
(* numbers are compared with Eq, Lt, ..., never with =); "inf" with s = 1  *)
(* or -1 is Infinity or -Infinity; "nan" is NaN; "undef" is an absent      *)
(* optional field.  Zero carries no sign: every zero the calculators       *)
(* divide by is +0.                                                        *)
(***************************************************************************)
\* the finite number s * n / d
Fin(s, n, d) ==
  IF s = 0 \/ Len(n) = 0 \/ Len(d) = 0
  THEN [k |-> "fin", s |-> 0, n |-> <<>>, d |-> NatOne]
  ELSE [k |-> "fin", s |-> s, n |-> n, d |-> d]

Infinity    == [k |-> "inf", s |-> 1, n |-> <<>>, d |-> NatOne]
NegInfinity == [k |-> "inf", s |-> -1, n |-> <<>>, d |-> NatOne]
NaN         == [k |-> "nan", s |-> 0, n |-> <<>>, d |-> NatOne]
Undefined   == [k |-> "undef", s |-> 0, n |-> <<>>, d |-> NatOne]

Inf(s) == IF s < 0 THEN NegInfinity ELSE Infinity

\* the number a / b for machine integers a and b > 0
Q(a, b) == Fin(IF a < 0 THEN -1 ELSE IF a = 0 THEN 0 ELSE 1,
               NatOfInt(IF a < 0 THEN -a ELSE a), NatOfInt(b))

Z(a) == Q(a, 1)

Zero == Z(0)
One  == Z(1)

IsFinite(x) == x.k = "fin"
IsNaN(x)    == x.k = "nan"
IsZero(x)   == x.k = "fin" /\ x.s = 0

Neg(x) == [x EXCEPT !.s = -x.s]

\* -1, 0 or 1 for two numbers neither of which is NaN
Cmp(x, y) == Evaluar("Cmp", <<x, y>>)

\* the comparison operators of JavaScript: false as soon as one side is NaN
Lt(x, y)  == ~IsNaN(x) /\ ~IsNaN(y) /\ Cmp(x, y) < 0
Leq(x, y) == ~IsNaN(x) /\ ~IsNaN(y) /\ Cmp(x, y) <= 0
Gt(x, y)  == Lt(y, x)
Geq(x, y) == Leq(y, x)
\* x === y
Eq(x, y)  == ~IsNaN(x) /\ ~IsNaN(y) /\ Cmp(x, y) = 0

\* x + y, x - y, x * y, x / y
Add(x, y) == Evaluar("Add", <<x, y>>)
Sub(x, y) == Add(x, Neg(y))
Mul(x, y) == Evaluar("Mul", <<x, y>>)
Div(x, y) == Evaluar("Div", <<x, y>>)

\* Math.pow(x, e) for a machine integer e >= 0
PowInt(x, e) == Evaluar("PowInt", <<x, e>>)

\* Number.isInteger(x)
NumberIsInteger(x) == x.k = "fin" /\ Len(NatDivMod(x.n, x.d)[2]) = 0

\* the machine integer a finite integral number stands for (small values only)
ToInt(x) == x.s * IntOfNat(NatDivMod(x.n, x.d)[1], 1)

\* the largest integer <= x, for finite x
Floor(x) == Evaluar("Floor", <<x>>)

\* Math.round(x): the nearest integer, a tie going towards +Infinity
MathRound(x) == Evaluar("MathRound", <<x>>)

\* (Math.pow(b, e) - 1) * 100 for a finite exponent e > 0, the one shape in which
\* the calculators use Math.pow with an exponent that may not be an integer.  With an
\* integer exponent the value is computed; otherwise it is kept as the power it is
\* (kind "pow": base s*n/d > 0, exponent e), since it is irrational in general.
PowMenos1Por100(b, e) == Evaluar("PowMenos1Por100", <<b, e>>)

(***************************************************************************)
(* The arithmetic arms of the evaluator: NaN as soon as one operand is     *)
(* NaN, the rules of IEEE 754 for the infinities and for zero, the exact   *)
(* value otherwise.                                                        *)
(***************************************************************************)
CmpArm(x, y) ==
  IF x.k = "inf" \/ y.k = "inf"
  THEN (IF x.k # "inf" THEN -y.s ELSE IF y.k # "inf" THEN x.s
        ELSE IF x.s = y.s THEN 0 ELSE x.s)
  ELSE IF x.s # y.s THEN (IF x.s < y.s THEN -1 ELSE 1)
  ELSE IF x.s = 0 THEN 0
  ELSE x.s * NatCmp(NatMul(x.n, y.d), NatMul(y.n, x.d))

AddArm(x, y) ==
  IF x.k = "nan" \/ y.k = "nan" THEN NaN
  ELSE IF x.k = "inf" \/ y.k = "inf"
  THEN (IF x.k # "inf" THEN y ELSE IF y.k # "inf" THEN x
        ELSE IF x.s = y.s THEN x ELSE NaN)
  ELSE IF x.s = 0 THEN y
  ELSE IF y.s = 0 THEN x
  ELSE LET a == NatMul(x.n, y.d)
           b == NatMul(y.n, x.d)
           c == NatCmp(a, b)
       IN  IF c = 0 /\ x.s # y.s THEN Zero
           ELSE IF x.s = y.s THEN Fin(x.s, NatAdd(a, b), NatMul(x.d, y.d))
           ELSE IF c > 0 THEN Fin(x.s, NatSub(a, b), NatMul(x.d, y.d))
           ELSE Fin(y.s, NatSub(b, a), NatMul(x.d, y.d))

MulArm(x, y) ==
  IF x.k = "nan" \/ y.k = "nan" THEN NaN
  ELSE IF x.k = "inf" \/ y.k = "inf"
  THEN (IF x.s = 0 \/ y.s = 0 THEN NaN ELSE Inf(x.s * y.s))
  ELSE IF x.s = 0 \/ y.s = 0 THEN Zero
  ELSE Fin(x.s * y.s, NatMul(x.n, y.n), NatMul(x.d, y.d))

DivArm(x, y) ==
  IF x.k = "nan" \/ y.k = "nan" THEN NaN
  ELSE IF y.k = "inf" THEN (IF x.k = "inf" THEN NaN ELSE Zero)
  ELSE IF x.k = "inf" THEN Inf(IF y.s < 0 THEN -x.s ELSE x.s)
  ELSE IF y.s = 0 THEN (IF x.s = 0 THEN NaN ELSE Inf(x.s))
  ELSE IF x.s = 0 THEN Zero
  ELSE Fin(x.s * y.s, NatMul(x.n, y.d), NatMul(x.d, y.n))

PowIntArm(x, e) ==
  IF e = 0 THEN One
  ELSE IF x.k = "nan" THEN NaN
  ELSE IF x.k = "inf" THEN Inf(IF x.s < 0 /\ e % 2 = 1 THEN -1 ELSE 1)
  ELSE IF x.s = 0 THEN x
  ELSE Fin(IF x.s < 0 /\ e % 2 = 1 THEN -1 ELSE 1, NatPow(x.n, e), NatPow(x.d, e))

FloorArm(x) ==
  LET qr == NatDivMod(x.n, x.d)
  IN  IF x.s >= 0 THEN Fin(x.s, qr[1], NatOne)
      ELSE Fin(-1, IF Len(qr[2]) = 0 THEN qr[1] ELSE NatAdd(qr[1], NatOne), NatOne)

MathRoundArm(x) == IF x.k # "fin" THEN x ELSE Floor(Add(x, Q(1, 2)))

PowMenos1Por100Arm(b, e) ==
  IF NumberIsInteger(e)
  THEN Mul(Sub(PowInt(b, ToInt(e)), One), Z(100))
  ELSE IF b.k = "nan" THEN NaN
  ELSE IF b.k = "inf" THEN Infinity
  ELSE IF b.s < 0 THEN NaN
  ELSE IF b.s = 0 THEN Z(-100)
  ELSE IF Eq(b, One) THEN Zero
  ELSE [k |-> "pow", s |-> 1, n |-> b.n, d |-> b.d, e |-> e]

\* the number whose power a percentage is: (base ^ exponent - 1) * 100
PctBase(x) == IF x.k = "pow" THEN Fin(1, x.n, x.d) ELSE Add(Div(x, Z(100)), One)
PctExp(x)  == IF x.k = "pow" THEN x.e ELSE One

\* -1, 0 or 1 for two percentages, neither NaN, each a number or a "pow"
PctCmp(x, y) ==
  IF x.k # "pow" /\ y.k # "pow" THEN Cmp(x, y)
  ELSE LET bx == PctBase(x)
           by == PctBase(y)
           ex == PctExp(x)
           ey == PctExp(y)
       IN  IF Eq(ex, ey) THEN Cmp(bx, by)
           ELSE IF bx.k = "inf" \/ by.k = "inf" THEN Cmp(bx, by)
           ELSE IF bx.s <= 0 \/ by.s <= 0 THEN Cmp(bx, by)
           ELSE IF Cmp(bx, One) # Cmp(by, One) \* a power with exponent > 0 stays on
           THEN (IF Cmp(bx, One) < Cmp(by, One) THEN -1 ELSE 1) \* its base's side of 1
           ELSE IF Cmp(bx, One) = 0 THEN 0
           ELSE \* bx ^ (ex.n / ex.d) against by ^ (ey.n / ey.d), both bases > 0
                Cmp(PowInt(bx, IntOfNat(NatMul(ex.n, ey.d), 1)),
                    PowInt(by, IntOfNat(NatMul(ey.n, ex.d), 1)))

PctLeq(x, y) == ~IsNaN(x) /\ ~IsNaN(y) /\ PctCmp(x, y) <= 0
PctEq(x, y)  == ~IsNaN(x) /\ ~IsNaN(y) /\ PctCmp(x, y) = 0

(***************************************************************************)
(* Shared shapes.                                                          *)
(***************************************************************************)
\* `field = 0` in a destructuring pattern: the default replaces undefined only
Default(v, dflt) == IF v.k = "undef" THEN dflt ELSE v

MsgImporte == "El importe debe ser mayor a cero"
MsgCuotas  == "El número de cuotas debe ser un entero mayor a cero"
MsgTna     == "La TNA no puede ser negativa"

\* const IVA = 0.21
IVA == Q(21, 100)

Millon == Z(1000 * 1000)
Cien   == Z(100)

(***************************************************************************)
(* Method A, first variant ("FiservV1"): no fees, nothing rounded.         *)
(***************************************************************************)
\* a validator that also rejects tna = 0
validarTnaEstricta(input) ==
  IF Leq(input.importe, Zero)
  THEN [isValid |-> FALSE, errorMessage |-> MsgImporte]
  ELSE IF Leq(input.cuotas, Zero) \/ ~NumberIsInteger(input.cuotas)
  THEN [isValid |-> FALSE, errorMessage |-> MsgCuotas]
  ELSE IF Leq(input.tna, Zero)
  THEN [isValid |-> FALSE, errorMessage |-> MsgTna]
  ELSE [isValid |-> TRUE, errorMessage |-> ""]

validarDatosEntrada_F1(input) ==
  IF Leq(input.importe, Zero)
  THEN [isValid |-> FALSE, errorMessage |-> MsgImporte]
  ELSE IF Leq(input.cuotas, Zero) \/ ~NumberIsInteger(input.cuotas)
  THEN [isValid |-> FALSE, errorMessage |-> MsgCuotas]
  ELSE IF Lt(input.tna, Zero)
  THEN [isValid |-> FALSE, errorMessage |-> MsgTna]
  ELSE [isValid |-> TRUE, errorMessage |-> ""]

calcularTEM_F1(tna) == Div(Div(tna, Cien), Z(12))

calcularCoeficiente_F1(tem, cuotas) ==
  IF Eq(tem, Zero) THEN Div(One, cuotas)
  ELSE LET unoMasTEM == Add(One, tem)
           unoMasTEMElevadoCuotas == PowInt(unoMasTEM, ToInt(cuotas))
       IN  Div(Mul(tem, unoMasTEMElevadoCuotas), Sub(unoMasTEMElevadoCuotas, One))

\* the denominators calcularCoeficiente divides by
divisores_calcularCoeficiente_F1(tem, cuotas) ==
  IF Eq(tem, Zero) THEN {[en |-> "1 / cuotas", den |-> cuotas]}
  ELSE {[en |-> "(1 + tem)^cuotas - 1",
         den |-> Sub(PowInt(Add(One, tem), ToInt(cuotas)), One)]}

calcularTasaDirecta_F1(coeficiente, cuotas) ==
  Mul(Sub(Mul(coeficiente, cuotas), One), Cien)

calcularCoeficienteConIVA_F1(coeficiente) == Mul(coeficiente, Add(One, IVA))

calcularTEA_F1(tem) == PowMenos1Por100(Add(One, tem), Z(12))

calcularCFT_F1(coeficiente, cuotas) ==
  LET coeficientePorCuotas == Mul(coeficiente, cuotas)
      exponenteCFT == Div(Z(12), cuotas)
  IN  PowMenos1Por100(coeficientePorCuotas, exponenteCFT)

calcularCuota_F1(importe, coeficiente) == Mul(importe, coeficiente)

calcularMontoTotal_F1(cuota, numeroCuotas) == Mul(cuota, numeroCuotas)

calcularInteresTotal_F1(montoTotal, importe) == Sub(montoTotal, importe)

\* What one invocation leaves: it either throws (error, no resultado) or returns.
\* pasos lists, in order, what the invocation evaluated; divisores the denominators
\* of its divisions; tem and tnaCobrador the intermediate rates it used.
Lanzado(mensaje) ==
  [lanzo |-> TRUE, error |-> mensaje, resultado |-> <<>>,
   pasos |-> <<"validarDatosEntrada">>, divisores |-> {},
   tnaCobrador |-> Undefined, tem |-> Undefined]

calcularFinanciamiento_F1(input) ==
  LET validacion == validarDatosEntrada_F1(input)
  IN  IF ~validacion.isValid THEN Lanzado(validacion.errorMessage)
      ELSE
      LET importe == input.importe
          cuotas == input.cuotas
          tna == input.tna
          tem == calcularTEM_F1(tna)
          coeficiente == calcularCoeficiente_F1(tem, cuotas)
          tasaDirecta == calcularTasaDirecta_F1(coeficiente, cuotas)
          coeficienteConIVA == calcularCoeficienteConIVA_F1(coeficiente)
          tea == calcularTEA_F1(tem)
          cft == calcularCFT_F1(coeficiente, cuotas)
          cuota == calcularCuota_F1(importe, coeficiente)
          cuotaConIVA == calcularCuota_F1(importe, coeficienteConIVA)
          montoTotal == calcularMontoTotal_F1(cuota, cuotas)
          montoTotalConIVA == calcularMontoTotal_F1(cuotaConIVA, cuotas)
          interesTotal == calcularInteresTotal_F1(montoTotal, importe)
          interesTotalConIVA == calcularInteresTotal_F1(montoTotalConIVA, importe)
      IN  [lanzo |-> FALSE, error |-> "",
           resultado |-> <<[coeficiente |-> coeficiente,
                            tasaDirecta |-> tasaDirecta,
                            coeficienteConIVA |-> coeficienteConIVA,
                            tea |-> tea,
                            cft |-> cft,
                            cuota |-> cuota,
                            cuotaConIVA |-> cuotaConIVA,
                            montoTotal |-> montoTotal,
                            montoTotalConIVA |-> montoTotalConIVA,
                            interesTotal |-> interesTotal,
                            interesTotalConIVA |-> interesTotalConIVA,
                            detallesPorCuota |-> <<>>]>>,
           pasos |-> <<"validarDatosEntrada", "calcularTEM", "calcularCoeficiente",
                       "calcularTasaDirecta", "calcularCoeficienteConIVA",
                       "calcularTEA", "calcularCFT", "calcularCuota",
                       "calcularMontoTotal", "calcularInteresTotal">>,
           divisores |-> divisores_calcularCoeficiente_F1(tem, cuotas)
                         \cup {[en |-> "12 / cuotas", den |-> cuotas]},
           tnaCobrador |-> tna, tem |-> tem]

(***************************************************************************)
(* Method A, second variant ("FiservV2"): fees, rounding at 6 and 2 places. *)
(***************************************************************************)
\* a validator that examines the rules in the opposite order: tna, cuotas, importe
validarEnOrdenInverso(input) ==
  IF Lt(input.tna, Zero)
  THEN [isValid |-> FALSE, errorMessage |-> MsgTna]
  ELSE IF Leq(input.cuotas, Zero) \/ ~NumberIsInteger(input.cuotas)
  THEN [isValid |-> FALSE, errorMessage |-> MsgCuotas]
  ELSE IF Leq(input.importe, Zero)
  THEN [isValid |-> FALSE, errorMessage |-> MsgImporte]
  ELSE [isValid |-> TRUE, errorMessage |-> ""]

validarDatosEntrada_F2(input) ==
  IF Leq(input.importe, Zero)
  THEN [isValid |-> FALSE, errorMessage |-> MsgImporte]
  ELSE IF Leq(input.cuotas, Zero) \/ ~NumberIsInteger(input.cuotas)
  THEN [isValid |-> FALSE, errorMessage |-> MsgCuotas]
  ELSE IF Lt(input.tna, Zero)
  THEN [isValid |-> FALSE, errorMessage |-> MsgTna]
  ELSE [isValid |-> TRUE, errorMessage |-> ""]

\* the annual rate as a fraction, not divided into months
tasaAnualDecimal(tna) == Div(tna, Cien)

calcularTEM_F2(tna) == Div(Div(tna, Cien), Z(12))

calcularCoeficiente_F2(tem, cuotas) ==
  IF Eq(tem, Zero)
  THEN Div(MathRound(Mul(Div(One, cuotas), Millon)), Millon)
  ELSE LET unoMasTEM == Add(One, tem)
           unoMasTEMElevadoCuotas == PowInt(unoMasTEM, ToInt(cuotas))
           coeficiente == Div(Mul(tem, unoMasTEMElevadoCuotas),
                              Sub(unoMasTEMElevadoCuotas, One))
       IN  Div(MathRound(Mul(coeficiente, Millon)), Millon)

divisores_calcularCoeficiente_F2(tem, cuotas) ==
  IF Eq(tem, Zero) THEN {[en |-> "1 / cuotas", den |-> cuotas]}
  ELSE {[en |-> "(1 + tem)^cuotas - 1",
         den |-> Sub(PowInt(Add(One, tem), ToInt(cuotas)), One)]}

calcularTasaDirecta_F2(coeficiente, cuotas) ==
  Mul(Sub(Mul(coeficiente, cuotas), One), Cien)

calcularCoeficienteConIVA_F2(coeficiente) ==
  LET coeficienteConIVA == Mul(coeficiente, Add(One, IVA))
  IN  Div(MathRound(Mul(coeficienteConIVA, Millon)), Millon)

calcularTEA_F2(tem) == PowMenos1Por100(Add(One, tem), Z(12))

\* the cost without the principal taken off
cftSinRestarUno(coeficiente, cuotas) == Mul(Mul(coeficiente, cuotas), Cien)

calcularCFT_F2(coeficiente, cuotas) ==
  LET coeficientePorCuotas == Mul(coeficiente, cuotas)
      exponenteCFT == Div(Z(12), cuotas)
  IN  PowMenos1Por100(coeficientePorCuotas, exponenteCFT)

calcularCuota_F2(importe, coeficiente) ==
  LET cuota == Mul(importe, coeficiente)
  IN  Div(MathRound(Mul(cuota, Cien)), Cien)

\* one instalment in the place of the total
montoDeUnaCuota(cuota, numeroCuotas) == cuota

calcularMontoTotal_F2(cuota, numeroCuotas) ==
  LET montoTotal == Mul(cuota, numeroCuotas)
  IN  Div(MathRound(Mul(montoTotal, Cien)), Cien)

calcularInteresTotal_F2(montoTotal, importe) ==
  LET interesTotal == Sub(montoTotal, importe)
  IN  Div(MathRound(Mul(interesTotal, Cien)), Cien)

\* tna + arancelProcesador + feeRiesgoProcesador + adicionalCobrador + impuestos,
\* each fee defaulting to 0 when absent
tnaCobrador_F2(input) ==
  LET arancelProcesador == Default(input.arancelProcesador, Zero)
      feeRiesgoProcesador == Default(input.feeRiesgoProcesador, Zero)
      adicionalCobrador == Default(input.adicionalCobrador, Zero)
      impuestos == Default(input.impuestos, Zero)
  IN  Add(Add(Add(Add(input.tna, arancelProcesador), feeRiesgoProcesador),
              adicionalCobrador), impuestos)

calcularFinanciamiento_F2(input) ==
  LET validacion == validarDatosEntrada_F2(input)
  IN  IF ~validacion.isValid THEN Lanzado(validacion.errorMessage)
      ELSE
      LET importe == input.importe
          cuotas == input.cuotas
          tnaCobrador == tnaCobrador_F2(input)
          tem == calcularTEM_F2(tnaCobrador)
          coeficiente == calcularCoeficiente_F2(tem, cuotas)
          tasaDirecta == calcularTasaDirecta_F2(coeficiente, cuotas)
          coeficienteConIVA == calcularCoeficienteConIVA_F2(coeficiente)
          tea == calcularTEA_F2(tem)
          cft == calcularCFT_F2(coeficiente, cuotas)
          cuota == calcularCuota_F2(importe, coeficiente)
          cuotaConIVA == calcularCuota_F2(importe, coeficienteConIVA)
          montoTotal == calcularMontoTotal_F2(cuota, cuotas)
          montoTotalConIVA == calcularMontoTotal_F2(cuotaConIVA, cuotas)
          interesTotal == calcularInteresTotal_F2(montoTotal, importe)
          interesTotalConIVA == calcularInteresTotal_F2(montoTotalConIVA, importe)
      IN  [lanzo |-> FALSE, error |-> "",
           resultado |-> <<[coeficiente |-> coeficiente,
                            tasaDirecta |-> tasaDirecta,
                            coeficienteConIVA |-> coeficienteConIVA,
                            tea |-> tea,
                            cft |-> cft,
                            cuota |-> cuota,
                            cuotaConIVA |-> cuotaConIVA,
                            montoTotal |-> montoTotal,
                            montoTotalConIVA |-> montoTotalConIVA,
                            interesTotal |-> interesTotal,
                            interesTotalConIVA |-> interesTotalConIVA,
                            detallesPorCuota |-> <<>>]>>,
           pasos |-> <<"validarDatosEntrada", "tnaCobrador", "calcularTEM",
                       "calcularCoeficiente", "calcularTasaDirecta",
                       "calcularCoeficienteConIVA", "calcularTEA", "calcularCFT",
                       "calcularCuota", "calcularMontoTotal", "calcularInteresTotal">>,
           divisores |-> divisores_calcularCoeficiente_F2(tem, cuotas)
                         \cup {[en |-> "12 / cuotas", den |-> cuotas]},
           tnaCobrador |-> tnaCobrador, tem |-> tem]

(***************************************************************************)
(* Method B ("Procesador"): 28 days to the first instalment, 30 days to    *)
(* each later one, a 360-day year; fees; rounding at 6 and 2 places.       *)
(***************************************************************************)
\* a validator without the first rule
validarSinReglaImporte(input) ==
  IF Leq(input.cuotas, Zero) \/ ~NumberIsInteger(input.cuotas)
  THEN [isValid |-> FALSE, errorMessage |-> MsgCuotas]
  ELSE IF Lt(input.tna, Zero)
  THEN [isValid |-> FALSE, errorMessage |-> MsgTna]
  ELSE [isValid |-> TRUE, errorMessage |-> ""]

validarDatosEntrada_P(input) ==
  IF Leq(input.importe, Zero)
  THEN [isValid |-> FALSE, errorMessage |-> MsgImporte]
  ELSE IF Leq(input.cuotas, Zero) \/ ~NumberIsInteger(input.cuotas)
  THEN [isValid |-> FALSE, errorMessage |-> MsgCuotas]
  ELSE IF Lt(input.tna, Zero)
  THEN [isValid |-> FALSE, errorMessage |-> MsgTna]
  ELSE [isValid |-> TRUE, errorMessage |-> ""]

\* the 30-day factor in the place of the 28-day one
factor30EnLugarDe28(tna) == Add(One, Div(Mul(Div(tna, Cien), Z(30)), Z(360)))

factor28Dias(tna) == Add(One, Div(Mul(Div(tna, Cien), Z(28)), Z(360)))
factor30Dias(tna) == Add(One, Div(Mul(Div(tna, Cien), Z(30)), Z(360)))

\* the coefficient of the first instalment at every index
coeficienteDePrimeraCuota(tna, numeroCuota) == Div(One, factor28Dias(tna))

\* numeroCuota is a machine integer >= 1
calcularCoeficienteCuota(tna, numeroCuota) ==
  IF numeroCuota = 1 THEN Div(One, factor28Dias(tna))
  ELSE LET exponente == numeroCuota - 1
           factor30Elevado == PowInt(factor30Dias(tna), exponente)
       IN  Div(One, Mul(factor28Dias(tna), factor30Elevado))

divisores_calcularCoeficienteCuota(tna, numeroCuota) ==
  IF numeroCuota = 1
  THEN {[en |-> "factor28Dias", den |-> factor28Dias(tna)]}
  ELSE {[en |-> "factor28Dias * factor30Elevado",
         den |-> Mul(factor28Dias(tna), PowInt(factor30Dias(tna), numeroCuota - 1))]}

\* an accumulator that would outlive the invocation
sumaQueSobrevive == sumaRetenida

\* let sumaCoeficientes = 0
sumaInicial == Zero

\* for (let i = desde; i <= cuotas; i++) sumaCoeficientes += calcularCoeficienteCuota(tna, i)
RECURSIVE sumarCoeficientes(_, _, _, _)
sumarCoeficientes(tna, cuotas, desde, sumaCoeficientes) ==
  IF desde > cuotas THEN sumaCoeficientes
  ELSE sumarCoeficientes(tna, cuotas, desde + 1,
                         Add(sumaCoeficientes, calcularCoeficienteCuota(tna, desde)))

\* the cost taken from the sum of the coefficients, not from their mean
costoSinPromediar(valorNetoArancel, cuotasPlan, tna) ==
  Mul(valorNetoArancel, Sub(One, sumarCoeficientes(tna, ToInt(cuotasPlan), 1, sumaInicial)))

calcularCostoFinanciero(valorNetoArancel, cuotasPlan, tna) ==
  LET sumaCoeficientes == sumarCoeficientes(tna, ToInt(cuotasPlan), 1, sumaInicial)
      factorDescuento == Mul(Div(One, cuotasPlan), sumaCoeficientes)
  IN  Mul(valorNetoArancel, Sub(One, factorDescuento))

\* the sum in place of the mean
sumaEnLugarDelPromedio(tna, cuotas) == sumarCoeficientes(tna, ToInt(cuotas), 1, sumaInicial)

promedioCoeficientesDescuento(tna, cuotas) ==
  Div(sumarCoeficientes(tna, ToInt(cuotas), 1, sumaInicial), cuotas)

\* the mean itself, not its reciprocal
coeficienteSinInvertir(tna, cuotas) == promedioCoeficientesDescuento(tna, cuotas)

calcularCoeficientePromedio(tna, cuotas) ==
  LET coeficiente == Div(One, promedioCoeficientesDescuento(tna, cuotas))
  IN  Div(MathRound(Mul(coeficiente, Millon)), Millon)

calcularTEM_P(tna) == Div(Div(tna, Cien), Z(12))

\* the coefficient without the zero-rate case
coeficienteSinCasoTasaCero(tna, cuotas) == calcularCoeficientePromedio(tna, cuotas)

calcularCoeficiente_P(tna, cuotas) ==
  IF Eq(tna, Zero)
  THEN Div(MathRound(Mul(Div(One, cuotas), Millon)), Millon)
  ELSE calcularCoeficientePromedio(tna, cuotas)

calcularTasaDirecta_P(coeficiente, cuotas) ==
  Mul(Sub(Mul(coeficiente, cuotas), One), Cien)

\* the coefficient handed back without the tax
coeficienteSinIVA(coeficiente) == coeficiente

calcularCoeficienteConIVA_P(coeficiente) ==
  LET coeficienteConIVA == Mul(coeficiente, Add(One, IVA))
  IN  Div(MathRound(Mul(coeficienteConIVA, Millon)), Millon)

\* the financial cost itself in the place of its share of the importe
cftComoCosto(importe, cuotas, tna) == calcularCostoFinanciero(importe, cuotas, tna)

calcularCFT_P(importe, cuotas, tna) ==
  LET costoFinanciero == calcularCostoFinanciero(importe, cuotas, tna)
  IN  Mul(Div(costoFinanciero, importe), Cien)

diasTotales(cuotas) == Add(Z(28), Mul(Z(30), Sub(cuotas, One)))

\* the fallback branch taken every time
teaPorElAtajo(importe, cuotas, tna) == calcularCFT_P(importe, cuotas, tna)

calcularTEA_P(importe, cuotas, tna) ==
  LET cft == calcularCFT_P(importe, cuotas, tna)
      costoFinanciero == calcularCostoFinanciero(importe, cuotas, tna)
      montoTotal == Add(importe, costoFinanciero)
      anios == Div(diasTotales(cuotas), Z(360))
  IN  IF Gt(anios, Zero) /\ Gt(importe, Zero)
      THEN PowMenos1Por100(Div(montoTotal, importe), Div(One, anios))
      ELSE cft

calcularCuota_P(importe, coeficiente) ==
  LET cuota == Mul(importe, coeficiente)
  IN  Div(MathRound(Mul(cuota, Cien)), Cien)

calcularMontoTotal_P(cuota, numeroCuotas) ==
  LET montoTotal == Mul(cuota, numeroCuotas)
  IN  Div(MathRound(Mul(montoTotal, Cien)), Cien)

calcularInteresTotal_P(montoTotal, importe) ==
  LET interesTotal == Sub(montoTotal, importe)
  IN  Div(MathRound(Mul(interesTotal, Cien)), Cien)

\* the records pushed for i = desde..cuotas, appended to detalles
RECURSIVE detallesDesde(_, _, _, _, _, _, _, _, _)
detallesDesde(importe, cuotas, tnaCobrador, cuota, tea, cft, tasaDirecta, desde, detalles) ==
  IF desde > cuotas THEN detalles
  ELSE LET coeficienteCuota == calcularCoeficienteCuota(tnaCobrador, desde)
           coeficienteCuotaConIVA == calcularCoeficienteConIVA_P(coeficienteCuota)
       IN  detallesDesde(importe, cuotas, tnaCobrador, cuota, tea, cft, tasaDirecta,
             desde + 1,
             Append(detalles,
               [numeroCuota |-> desde,
                importe |-> importe,
                tnaResultante |-> tnaCobrador,
                cuota |-> cuota,
                coeficiente |-> Div(MathRound(Mul(coeficienteCuota, Millon)), Millon),
                coeficienteConIVA |->
                  Div(MathRound(Mul(coeficienteCuotaConIVA, Millon)), Millon),
                tea |-> tea,
                cft |-> cft,
                tasaDirecta |-> tasaDirecta]))

\* detail records whose cuota is left unrounded
detallesConCuotaSinRedondear(importe, cuotas, tnaCobrador, coeficientePromedio, tea, cft, tasaDirecta) ==
  detallesDesde(importe, ToInt(cuotas), tnaCobrador, Mul(importe, coeficientePromedio),
                tea, cft, tasaDirecta, 1, <<>>)

calcularDetallesPorCuota(importe, cuotas, tnaCobrador, coeficientePromedio, tea, cft, tasaDirecta) ==
  LET cuota == calcularCuota_P(importe, coeficientePromedio)
  IN  detallesDesde(importe, ToInt(cuotas), tnaCobrador, cuota, tea, cft, tasaDirecta,
                    1, <<>>)

\* a resultant rate that leaves the fees out
tnaSinFees(input) == input.tna

tnaCobrador_P(input) ==
  LET arancelProcesador == Default(input.arancelProcesador, Zero)
      feeRiesgoProcesador == Default(input.feeRiesgoProcesador, Zero)
      adicionalCobrador == Default(input.adicionalCobrador, Zero)
      impuestos == Default(input.impuestos, Zero)
  IN  Add(Add(Add(Add(input.tna, arancelProcesador), feeRiesgoProcesador),
              adicionalCobrador), impuestos)

\* the denominators one valid invocation of Method B divides by
divisores_P(importe, cuotas, tnaCobrador) ==
  UNION {divisores_calcularCoeficienteCuota(tnaCobrador, i) : i \in 1..ToInt(cuotas)}
  \cup {[en |-> "1 / cuotas", den |-> cuotas],
        [en |-> "costoFinanciero / importe", den |-> importe],
        [en |-> "1 / anios", den |-> Div(diasTotales(cuotas), Z(360))]}
  \cup (IF Eq(tnaCobrador, Zero) THEN {}
        ELSE {[en |-> "1 / promedioCoeficientesDescuento",
               den |-> promedioCoeficientesDescuento(tnaCobrador, cuotas)]})

calcularFinanciamiento_P(input) ==
  LET validacion == validarDatosEntrada_P(input)
  IN  IF ~validacion.isValid THEN Lanzado(validacion.errorMessage)
      ELSE
      LET importe == input.importe
          cuotas == input.cuotas
          tnaCobrador == tnaCobrador_P(input)
          coeficiente == calcularCoeficiente_P(tnaCobrador, cuotas)
          tasaDirecta == calcularTasaDirecta_P(coeficiente, cuotas)
          coeficienteConIVA == calcularCoeficienteConIVA_P(coeficiente)
          tea == calcularTEA_P(importe, cuotas, tnaCobrador)
          cft == calcularCFT_P(importe, cuotas, tnaCobrador)
          cuota == calcularCuota_P(importe, coeficiente)
          cuotaConIVA == calcularCuota_P(importe, coeficienteConIVA)
          montoTotal == calcularMontoTotal_P(cuota, cuotas)
          montoTotalConIVA == calcularMontoTotal_P(cuotaConIVA, cuotas)
          interesTotal == calcularInteresTotal_P(montoTotal, importe)
          interesTotalConIVA == calcularInteresTotal_P(montoTotalConIVA, importe)
          detallesPorCuota == calcularDetallesPorCuota(importe, cuotas, tnaCobrador,
                                coeficiente, tea, cft, tasaDirecta)
      IN  [lanzo |-> FALSE, error |-> "",
           resultado |-> <<[coeficiente |-> coeficiente,
                            tasaDirecta |-> tasaDirecta,
                            coeficienteConIVA |-> coeficienteConIVA,
                            tea |-> tea,
                            cft |-> cft,
                            cuota |-> cuota,
                            cuotaConIVA |-> cuotaConIVA,
                            montoTotal |-> montoTotal,
                            montoTotalConIVA |-> montoTotalConIVA,
                            interesTotal |-> interesTotal,
                            interesTotalConIVA |-> interesTotalConIVA,
                            detallesPorCuota |-> detallesPorCuota]>>,
           pasos |-> <<"validarDatosEntrada", "tnaCobrador", "calcularCoeficiente",
                       "calcularTasaDirecta", "calcularCoeficienteConIVA",
                       "calcularTEA", "calcularCFT", "calcularCuota",
                       "calcularMontoTotal", "calcularInteresTotal",
                       "calcularDetallesPorCuota">>,
           divisores |-> divisores_P(importe, cuotas, tnaCobrador),
           tnaCobrador |-> tnaCobrador, tem |-> Undefined]

(***************************************************************************)
(* Method B step by step: the local variables of one invocation (its       *)
(* "marco") and what one step, a loop iteration or a return, does to them. *)
(***************************************************************************)
\* the locals of an invocation that has not started
marcoInicial(input) ==
  [input |-> input, pc |-> "validarDatosEntrada", i |-> 0, vuelta |-> 0,
   sumaCoeficientes |-> Zero, coeficiente |-> Undefined,
   costoFinanciero |-> Undefined, detalles |-> <<>>, resultado |-> <<>>,
   error |-> ""]

\* calcularCFT and calcularTEA, from the cost their calls of calcularCostoFinanciero
\* returned
cftDelCosto(importe, costoFinanciero) == Mul(Div(costoFinanciero, importe), Cien)

teaDelCosto(importe, cuotas, costoFinanciero) ==
  LET montoTotal == Add(importe, costoFinanciero)
      anios == Div(diasTotales(cuotas), Z(360))
  IN  IF Gt(anios, Zero) /\ Gt(importe, Zero)
      THEN PowMenos1Por100(Div(montoTotal, importe), Div(One, anios))
      ELSE cftDelCosto(importe, costoFinanciero)

\* the record pushed by the iteration f.i of the loop of calcularDetallesPorCuota
detalleDelMarco(f) ==
  LET tnaCobrador == tnaCobrador_P(f.input)
      coeficienteCuota == calcularCoeficienteCuota(tnaCobrador, f.i)
      coeficienteCuotaConIVA == calcularCoeficienteConIVA_P(coeficienteCuota)
  IN  [numeroCuota |-> f.i,
       importe |-> f.input.importe,
       tnaResultante |-> tnaCobrador,
       cuota |-> calcularCuota_P(f.input.importe, f.coeficiente),
       coeficiente |-> Div(MathRound(Mul(coeficienteCuota, Millon)), Millon),
       coeficienteConIVA |->
         Div(MathRound(Mul(coeficienteCuotaConIVA, Millon)), Millon),
       tea |-> teaDelCosto(f.input.importe, f.input.cuotas, f.costoFinanciero),
       cft |-> cftDelCosto(f.input.importe, f.costoFinanciero),
       tasaDirecta |-> calcularTasaDirecta_P(f.coeficiente, f.input.cuotas)]

\* the object calcularFinanciamiento returns, from the locals of the invocation
resultadoDelMarco(f) ==
  LET importe == f.input.importe
      cuotas == f.input.cuotas
      coeficienteConIVA == calcularCoeficienteConIVA_P(f.coeficiente)
      cuota == calcularCuota_P(importe, f.coeficiente)
      cuotaConIVA == calcularCuota_P(importe, coeficienteConIVA)
      montoTotal == calcularMontoTotal_P(cuota, cuotas)
      montoTotalConIVA == calcularMontoTotal_P(cuotaConIVA, cuotas)
  IN  [coeficiente |-> f.coeficiente,
       tasaDirecta |-> calcularTasaDirecta_P(f.coeficiente, cuotas),
       coeficienteConIVA |-> coeficienteConIVA,
       tea |-> teaDelCosto(importe, cuotas, f.costoFinanciero),
       cft |-> cftDelCosto(importe, f.costoFinanciero),
       cuota |-> cuota,
       cuotaConIVA |-> cuotaConIVA,
       montoTotal |-> montoTotal,
       montoTotalConIVA |-> montoTotalConIVA,
       interesTotal |-> calcularInteresTotal_P(montoTotal, importe),
       interesTotalConIVA |-> calcularInteresTotal_P(montoTotalConIVA, importe),
       detallesPorCuota |-> f.detalles]

\* sumaCoeficientes += calcularCoeficienteCuota(tna, i); i++
acumular(f) ==
  [f EXCEPT !.sumaCoeficientes =
              Add(f.sumaCoeficientes,
                  calcularCoeficienteCuota(tnaCobrador_P(f.input), f.i)),
            !.i = f.i + 1]

\* one step of the invocation whose locals are f: the validation, one iteration of
\* the loop of calcularCoeficientePromedio, of calcularCostoFinanciero (called twice
\* by calcularTEA and once by calcularCFT) or of calcularDetallesPorCuota, or the
\* statements after a loop
avanzar(f) ==
  CASE f.pc = "validarDatosEntrada" ->
         IF ~validarDatosEntrada_P(f.input).isValid
         THEN [f EXCEPT !.pc = "lanzado",
                        !.error = validarDatosEntrada_P(f.input).errorMessage]
         ELSE IF Eq(tnaCobrador_P(f.input), Zero)
         THEN [f EXCEPT !.pc = "calcularCostoFinanciero",
                        !.coeficiente =
                          Div(MathRound(Mul(Div(One, f.input.cuotas), Millon)), Millon),
                        !.i = 1, !.vuelta = 1, !.sumaCoeficientes = sumaInicial]
         ELSE [f EXCEPT !.pc = "calcularCoeficientePromedio",
                        !.i = 1, !.sumaCoeficientes = sumaInicial]
    [] f.pc = "calcularCoeficientePromedio" ->
         IF f.i <= ToInt(f.input.cuotas) THEN acumular(f)
         ELSE [f EXCEPT !.pc = "calcularCostoFinanciero",
                        !.coeficiente =
                          Div(MathRound(Mul(Div(One, Div(f.sumaCoeficientes,
                                                         f.input.cuotas)),
                                            Millon)), Millon),
                        !.i = 1, !.vuelta = 1, !.sumaCoeficientes = sumaInicial]
    [] f.pc = "calcularCostoFinanciero" ->
         IF f.i <= ToInt(f.input.cuotas) THEN acumular(f)
         ELSE IF f.vuelta < 3
         THEN [f EXCEPT !.costoFinanciero =
                          Mul(f.input.importe,
                              Sub(One, Mul(Div(One, f.input.cuotas),
                                           f.sumaCoeficientes))),
                        !.vuelta = f.vuelta + 1,
                        !.i = 1, !.sumaCoeficientes = sumaInicial]
         ELSE [f EXCEPT !.costoFinanciero =
                          Mul(f.input.importe,
                              Sub(One, Mul(Div(One, f.input.cuotas),
                                           f.sumaCoeficientes))),
                        !.pc = "calcularDetallesPorCuota",
                        !.i = 1, !.detalles = <<>>]
    [] f.pc = "calcularDetallesPorCuota" ->
         IF f.i <= ToInt(f.input.cuotas)
         THEN [f EXCEPT !.detalles = Append(f.detalles, detalleDelMarco(f)),
                        !.i = f.i + 1]
         ELSE [f EXCEPT !.pc = "retorno", !.resultado = <<resultadoDelMarco(f)>>]
    [] OTHER -> f

(***************************************************************************)
(* The form of Method B reads its fields, which are strings: here the      *)
(* sequences of their characters, over the digits, '.', '-' and 'a'.       *)
(***************************************************************************)
Cifras == <<"0", "1", "2", "3", "4", "5", "6", "7", "8", "9">>
Digitos == {Cifras[i] : i \in 1..10}

\* Number.prototype.toString of an integer n >= 0
RECURSIVE toString(_)
toString(n) == IF n < 10 THEN <<Cifras[n + 1]>> ELSE Append(toString(n \div 10), Cifras[(n % 10) + 1])

\* how many digits str has from position desde on, before anything else
digitosDesde(str, desde) ==
  LET otros == {i \in desde..Len(str) : str[i] \notin Digitos}
  IN  IF otros = {} THEN Len(str) - desde + 1
      ELSE (CHOOSE i \in otros : \A j \in otros : i <= j) - desde

\* 2^1024, the first power of two past the doubles, has 309 decimal digits
DigitosDeInfinito == 309

\* sign s and the digits enteros . decimales, as the double nearest to them: the digits
\* are read three to a limb, and 2^1024 - 2^970 or more is read as Infinity
numeroLeido(s, enteros, decimales) ==
  LET d == enteros \o decimales
      n == Len(d)
      dig(i) == IF i >= 1 THEN CHOOSE v \in 0..9 : Cifras[v + 1] = d[i] ELSE 0
      limb(j) == dig(n - 3 * j + 3) + 10 * dig(n - 3 * j + 2) + 100 * dig(n - 3 * j + 1)
      L == (n + 2) \div 3
      x == Fin(s, NatNorm(Tuple([j \in 1..L |-> limb(j)], L)), NatPow(<<10>>, Len(decimales)))
      DesdeInfinito == Sub(PowInt(Z(2), 1024), PowInt(Z(2), 970))
  IN  IF Len(enteros) < DigitosDeInfinito THEN x
      ELSE IF Geq(Fin(1, x.n, x.d), DesdeInfinito) THEN Inf(s) ELSE x

\* parseFloat: an optional sign, digits, an optional '.' and digits; the rest is ignored
parseFloat(str) ==
  LET signo == IF Len(str) > 0 /\ str[1] = "-" THEN -1 ELSE 1
      desde == IF signo = -1 THEN 2 ELSE 1
      p1 == digitosDesde(str, desde)
      punto == desde + p1 <= Len(str) /\ str[desde + p1] = "."
      p2 == IF punto THEN digitosDesde(str, desde + p1 + 1) ELSE 0
  IN  IF p1 + p2 = 0 THEN NaN
      ELSE numeroLeido(signo, SubSeq(str, desde, desde + p1 - 1),
                       SubSeq(str, desde + p1 + 1, desde + p1 + p2))

\* parseInt: an optional sign and digits; the rest is ignored
parseInt(str) ==
  LET signo == IF Len(str) > 0 /\ str[1] = "-" THEN -1 ELSE 1
      desde == IF signo = -1 THEN 2 ELSE 1
      p1 == digitosDesde(str, desde)
  IN  IF p1 = 0 THEN NaN
      ELSE numeroLeido(signo, SubSeq(str, desde, desde + p1 - 1), <<>>)

\* x || 0
oCero(x) == IF IsNaN(x) \/ IsZero(x) THEN Zero ELSE x

\* value === '' || /^\d*\.?\d*$/.test(value)
esDecimal(value) ==
  \/ value = <<>>
  \/ /\ \A i \in 1..Len(value) : value[i] \in Digitos \cup {"."}
     /\ Cardinality({i \in 1..Len(value) : value[i] = "."}) <= 1

\* the input handleSubmit builds from the fields
handleSubmit(f) ==
  [importe |-> oCero(parseFloat(f.importe)),
   cuotas |-> oCero(parseInt(f.cuotas)),
   tna |-> oCero(parseFloat(f.tna)),
   arancelProcesador |-> oCero(parseFloat(f.arancelProcesador)),
   feeRiesgoProcesador |-> oCero(parseFloat(f.feeRiesgoProcesador)),
   adicionalCobrador |-> oCero(parseFloat(f.adicionalCobrador)),
   impuestos |-> oCero(parseFloat(f.impuestos))]

(***************************************************************************)
(* The evaluator: the arithmetic and the three entry points.               *)
(***************************************************************************)
Evaluar(op, a) ==
  CASE Len(a) = 0             -> a
    [] op = "NatMul"          -> NatMulArm(a[1], a[2])
    [] op = "NatDivMod"       -> NatDivModArm(a[1], a[2])
    [] op = "Mul"             -> MulArm(a[1], a[2])
    [] op = "Div"             -> DivArm(a[1], a[2])
    [] op = "Add"             -> AddArm(a[1], a[2])
    [] op = "Cmp"             -> CmpArm(a[1], a[2])
    [] op = "PowInt"          -> PowIntArm(a[1], a[2])
    [] op = "Floor"           -> FloorArm(a[1])
    [] op = "MathRound"       -> MathRoundArm(a[1])
    [] op = "PowMenos1Por100" -> PowMenos1Por100Arm(a[1], a[2])
    [] op = "FiservV1"        -> calcularFinanciamiento_F1(a[1])
    [] op = "FiservV2"        -> calcularFinanciamiento_F2(a[1])
    [] op = "Procesador"      -> calcularFinanciamiento_P(a[1])
    [] op = "sumarCoeficientes" -> sumarCoeficientes(a[1], a[2], a[3], a[4])
    [] op = "avanzar"         -> avanzar(a[1])
    [] op = "handleSubmit"    -> handleSubmit(a[1])

\* one invocation of calcularFinanciamiento of the variant m
Invocar(m, input) == Evaluar(m, <<input>>)

(***************************************************************************)
MaxCuotas == 3
MaxPrevias == 2

ImporteSet == {Z(-100), Zero, Q(9999, 100), Z(10000)}
CuotasSet  == {Zero, Q(3, 2)} \cup {Z(n) : n \in 1..MaxCuotas}
TnaSet     == {Z(-1), Zero, Z(50), Z(120)}

Fees(a, f, c, i) ==
  [arancelProcesador |-> a, feeRiesgoProcesador |-> f,
   adicionalCobrador |-> c, impuestos |-> i]

\* absent, explicit zeros, one present, all present, cancelling the rate, negative
FeesSet ==
  {Fees(Undefined, Undefined, Undefined, Undefined),
   Fees(Zero, Zero, Zero, Zero),
   Fees(Z(5), Undefined, Undefined, Undefined),
   Fees(Z(5), Z(2), Z(3), Z(4)),
   Fees(Z(-50), Undefined, Undefined, Undefined),
   Fees(Z(-1200), Undefined, Undefined, Undefined),
   Fees(Z(-2400), Undefined, Undefined, Undefined)}

MkInput(importe, cuotas, tna, fees) ==
  [importe |-> importe, cuotas |-> cuotas, tna |-> tna,
   arancelProcesador |-> fees.arancelProcesador,
   feeRiesgoProcesador |-> fees.feeRiesgoProcesador,
   adicionalCobrador |-> fees.adicionalCobrador,
   impuestos |-> fees.impuestos]

\* what the form submits before any field is edited: importe '10000', cuotas '12',
\* tna '120', and the fees either not sent (first form) or '0' each (second form)
FormularioInicial ==
  {MkInput(Z(10000), Z(12), Z(120), Fees(Undefined, Undefined, Undefined, Undefined)),
   MkInput(Z(10000), Z(12), Z(120), Fees(Zero, Zero, Zero, Zero))}

\* the button 12 of the form, with several rates, without and with fees
DoceCuotas ==
  {MkInput(Z(10000), Z(12), t, f) :
     t \in {Zero, Z(50), Z(120)},
     f \in {Fees(Undefined, Undefined, Undefined, Undefined), Fees(Z(5), Z(2), Z(3), Z(4))}}

Inputs ==
  {MkInput(i, c, t, f) : i \in ImporteSet, c \in CuotasSet, t \in TnaSet, f \in FeesSet}
  \cup FormularioInicial \cup DoceCuotas

\* the sequences of invocations start from valid inputs that differ in tna only
TnaSec == {Zero, Z(50), Z(120)}

FeesSec ==
  {Fees(Undefined, Undefined, Undefined, Undefined),
   Fees(Z(5), Z(2), Z(3), Z(4)),
   Fees(Z(-2100), Undefined, Undefined, Undefined),
   Fees(Z(-2300), Undefined, Undefined, Undefined)}

InputsSec ==
  {MkInput(Z(10000), Z(n), t, f) : n \in 1..MaxCuotas, t \in TnaSec, f \in FeesSec}

(***************************************************************************)
(* The state machine.                                                      *)
(***************************************************************************)
\* useState(null), useState(null), useState('')
appInicial == [resultados |-> <<>>, inputUsuario |-> <<>>, error |-> ""]

\* useState('10000'), useState('12'), useState('120') and useState('0') for each fee
formInicial ==
  [importe |-> <<"1", "0", "0", "0", "0">>,
   cuotas |-> <<"1", "2">>,
   tna |-> <<"1", "2", "0">>,
   arancelProcesador |-> <<"0">>,
   feeRiesgoProcesador |-> <<"0">>,
   adicionalCobrador |-> <<"0">>,
   impuestos |-> <<"0">>]

Inicio(in) ==
  /\ app = appInicial
  /\ form = formInicial
  /\ inputUsuario = in
  /\ metodo = ""
  /\ estado = "listo"
  /\ resultados = <<>>
  /\ mensajeError = ""
  /\ pasos = <<>>
  /\ divisores = {}
  /\ tnaUsada = Undefined
  /\ temUsada = Undefined
  /\ sumaRetenida = Zero
  /\ previas = <<>>

Init == llamadas = <<>> /\ \E in \in Inputs : Inicio(in)

InitSec == llamadas = <<>> /\ \E in \in InputsSec : Inicio(in)

\* the caller receives what the invocation s left
Registrar(s) ==
  /\ estado' = IF s.lanzo THEN "error" ELSE "retorno"
  /\ resultados' = s.resultado
  /\ mensajeError' = s.error
  /\ pasos' = s.pasos
  /\ divisores' = s.divisores
  /\ tnaUsada' = s.tnaCobrador
  /\ temUsada' = s.tem

Invocable(m) == estado = "listo" /\ (previas = <<>> \/ metodo = m)

CalcularFiservV1 ==
  /\ Invocable("FiservV1")
  /\ metodo' = "FiservV1"
  /\ \E s \in {Invocar("FiservV1", inputUsuario)} : Registrar(s)
  /\ UNCHANGED <<inputUsuario, sumaRetenida, previas, llamadas, app, form>>

CalcularFiservV2 ==
  /\ Invocable("FiservV2")
  /\ metodo' = "FiservV2"
  /\ \E s \in {Invocar("FiservV2", inputUsuario)} : Registrar(s)
  /\ UNCHANGED <<inputUsuario, sumaRetenida, previas, llamadas, app, form>>

\* sumaRetenida is the accumulator of the coefficient loop as this invocation left it
CalcularProcesador ==
  /\ Invocable("Procesador")
  /\ metodo' = "Procesador"
  /\ \E s \in {Invocar("Procesador", inputUsuario)} :
       /\ Registrar(s)
       /\ sumaRetenida' =
            IF s.lanzo THEN sumaRetenida
            ELSE Evaluar("sumarCoeficientes",
                         <<s.tnaCobrador, ToInt(inputUsuario.cuotas), 1, sumaInicial>>)
  /\ UNCHANGED <<inputUsuario, previas, llamadas, app, form>>

\* the caller keeps what it got and prepares the next invocation, with the rate t
NuevaLlamada(t) ==
  /\ estado # "listo"
  /\ Len(previas) < MaxPrevias
  /\ previas' = Append(previas, [input |-> inputUsuario, metodo |-> metodo,
                                 estado |-> estado, resultado |-> resultados,
                                 error |-> mensajeError])
  /\ inputUsuario' = [inputUsuario EXCEPT !.tna = t]
  /\ estado' = "listo"
  /\ resultados' = <<>>
  /\ mensajeError' = ""
  /\ pasos' = <<>>
  /\ divisores' = {}
  /\ tnaUsada' = Undefined
  /\ temUsada' = Undefined
  /\ UNCHANGED <<metodo, sumaRetenida, llamadas, app, form>>

Next == CalcularFiservV1 \/ CalcularFiservV2 \/ CalcularProcesador

Spec == Init /\ [][Next]_vars

NextSec ==
  \/ CalcularFiservV1
  \/ CalcularFiservV2
  \/ CalcularProcesador
  \/ \E t \in TnaSec : NuevaLlamada(t)

SpecSec == InitSec /\ [][NextSec]_vars

(***************************************************************************)
(* Invocations of Method B running side by side, their steps interleaved.  *)
(***************************************************************************)
Llamadas == {"a", "b"}

\* valid inputs at rate 50, one at rate 0, and one the validator rejects
InputsConc ==
  {MkInput(Z(10000), Z(n), Z(50), Fees(Undefined, Undefined, Undefined, Undefined)) :
     n \in 1..MaxCuotas}
  \cup {MkInput(Z(10000), Z(MaxCuotas), Zero, Fees(Zero, Zero, Zero, Zero)),
        MkInput(Zero, Z(1), Z(50), Fees(Undefined, Undefined, Undefined, Undefined))}

InitConc ==
  \E ins \in [Llamadas -> InputsConc] :
    /\ llamadas = [p \in Llamadas |-> marcoInicial(ins[p])]
    /\ Inicio(ins["a"])

\* locals whose accumulator is the one of the invocation "a": a variable of the module
marcoCompartido(p) ==
  [llamadas[p] EXCEPT !.sumaCoeficientes = llamadas["a"].sumaCoeficientes]

\* the local variables the invocation p works on: its own
marcoDe(p) == llamadas[p]

\* the invocation p takes its next step
Paso(p) ==
  /\ llamadas[p].pc \notin {"retorno", "lanzado"}
  /\ llamadas' = [llamadas EXCEPT ![p] = Evaluar("avanzar", <<marcoDe(p)>>)]
  /\ UNCHANGED <<inputUsuario, metodo, estado, resultados, mensajeError, pasos,
                 divisores, tnaUsada, temUsada, sumaRetenida, previas, app, form>>

NextConc == \E p \in Llamadas : Paso(p)

SpecConc == InitConc /\ [][NextConc]_vars

(***************************************************************************)
(* The App component: what it displays after each handleCalcular.          *)
(***************************************************************************)
setError(a, e) == [a EXCEPT !.error = e]
setResultados(a, r) == [a EXCEPT !.resultados = r]
setInputUsuario(a, i) == [a EXCEPT !.inputUsuario = i]

\* a catch block that reports the message and keeps what was displayed
handleCalcularSinDescartar(a, s, input) ==
  IF ~s.lanzo THEN setInputUsuario(setResultados(setError(a, ""), s.resultado), <<input>>)
  ELSE setError(setError(a, ""), s.error)

\* s is what calcularFinanciamiento(input) left: its result, or the Error it threw
handleCalcular(a, s, input) ==
  IF ~s.lanzo THEN setInputUsuario(setResultados(setError(a, ""), s.resultado), <<input>>)
  ELSE setInputUsuario(setResultados(setError(setError(a, ""), s.error), <<>>), <<>>)

Metodos == {"FiservV1", "FiservV2", "Procesador"}

\* two inputs the validator accepts and one for each of its three messages
InputsApp ==
  {MkInput(Z(10000), Z(3), Z(50), Fees(Zero, Zero, Zero, Zero)),
   MkInput(Z(10000), One, Zero, Fees(Zero, Zero, Zero, Zero)),
   MkInput(Zero, Z(3), Z(50), Fees(Zero, Zero, Zero, Zero)),
   MkInput(Z(10000), Zero, Z(50), Fees(Zero, Zero, Zero, Zero)),
   MkInput(Z(10000), Z(3), Z(-1), Fees(Zero, Zero, Zero, Zero))}

InitApp == llamadas = <<>> /\ Inicio(MkInput(Zero, Zero, Zero, Fees(Zero, Zero, Zero, Zero)))

\* the form submits input and App runs the variant m of calcularFinanciamiento on it
HandleCalcular(m, in) ==
  /\ metodo \in {"", m}
  /\ estado = "listo" \/ Len(previas) < MaxPrevias
  /\ previas' = IF estado = "listo" THEN previas
                ELSE Append(previas, [input |-> inputUsuario, metodo |-> metodo,
                                      estado |-> estado, resultado |-> resultados,
                                      error |-> mensajeError])
  /\ inputUsuario' = in
  /\ metodo' = m
  /\ \E s \in {Invocar(m, in)} : Registrar(s) /\ app' = handleCalcular(app, s, in)
  /\ UNCHANGED <<sumaRetenida, llamadas, form>>

NextApp == \E m \in Metodos, in \in InputsApp : HandleCalcular(m, in)

SpecApp == InitApp /\ [][NextApp]_vars

(***************************************************************************)
(* The form of Method B: its field changes, its buttons and its submit.    *)
(***************************************************************************)
\* the buttons of the cuotas group
Botones == {1, 2, 3, 6, 9, 12, 18, 24}

Porcentuales == {"arancelProcesador", "feeRiesgoProcesador", "adicionalCobrador", "impuestos"}

\* '1' followed by 309 zeros
Enorme == <<"1">> \o Tuple([i \in 1..DigitosDeInfinito |-> "0"], DigitosDeInfinito)

\* what the user types or pastes into the fields
TecleadoImporte == {<<>>, <<"9", "9", ".", "5">>, <<"-", "1">>, Enorme}
TecleadoTna == {<<".">>, <<"5", "0">>, <<"1", ".", "2", ".", "3">>}
TecleadoPorcentual == {<<"2", ".">>, <<"1", "a">>}

\* the form is followed until it hands an input over: metodo is "" until then
handleImporteChange(value) ==
  /\ metodo = ""
  /\ form' = IF esDecimal(value) THEN [form EXCEPT !.importe = value] ELSE form
  /\ UNCHANGED <<inputUsuario, metodo, estado, resultados, mensajeError, pasos,
                 divisores, tnaUsada, temUsada, sumaRetenida, previas, llamadas, app>>

handleTnaChange(value) ==
  /\ metodo = ""
  /\ form' = IF esDecimal(value) THEN [form EXCEPT !.tna = value] ELSE form
  /\ UNCHANGED <<inputUsuario, metodo, estado, resultados, mensajeError, pasos,
                 divisores, tnaUsada, temUsada, sumaRetenida, previas, llamadas, app>>

handlePorcentualChange(value, setter) ==
  /\ metodo = ""
  /\ form' = IF esDecimal(value) THEN [form EXCEPT ![setter] = value] ELSE form
  /\ UNCHANGED <<inputUsuario, metodo, estado, resultados, mensajeError, pasos,
                 divisores, tnaUsada, temUsada, sumaRetenida, previas, llamadas, app>>

handleCuotasSelect(cuotasValue) ==
  /\ metodo = ""
  /\ form' = [form EXCEPT !.cuotas = toString(cuotasValue)]
  /\ UNCHANGED <<inputUsuario, metodo, estado, resultados, mensajeError, pasos,
                 divisores, tnaUsada, temUsada, sumaRetenida, previas, llamadas, app>>

\* onCalculate(input): the input is handed to App, which will run Method B on it
HandleSubmit ==
  /\ metodo = ""
  /\ inputUsuario' = Evaluar("handleSubmit", <<form>>)
  /\ metodo' = "Procesador"
  /\ UNCHANGED <<estado, resultados, mensajeError, pasos, divisores, tnaUsada, temUsada,
                 sumaRetenida, previas, llamadas, app, form>>

InitForm == llamadas = <<>> /\ Inicio(MkInput(Zero, Zero, Zero, Fees(Zero, Zero, Zero, Zero)))

NextForm ==
  \/ \E value \in TecleadoImporte : handleImporteChange(value)
  \/ \E value \in TecleadoTna : handleTnaChange(value)
  \/ \E value \in TecleadoPorcentual, setter \in Porcentuales : handlePorcentualChange(value, setter)
  \/ \E cuotasValue \in Botones : handleCuotasSelect(cuotasValue)
  \/ HandleSubmit

SpecForm == InitForm /\ [][NextForm]_vars

(***************************************************************************)
(* Properties.                                                             *)
(***************************************************************************)
Retorno   == estado = "retorno"
Resultado == resultados[1]

Abs(x) == IF x.s < 0 THEN Neg(x) ELSE x

\* x rounded half-up to 6 and to 2 decimals
Round6(x) == Div(MathRound(Mul(x, Millon)), Millon)
Round2(x) == Div(MathRound(Mul(x, Cien)), Cien)

\* half a unit of the 6th and of the 2nd decimal
Tol6 == Q(5, 10 * 1000 * 1000)
Tol2 == Q(5, 1000)

\* the same value: both NaN, or equal
Igual(x, y) == (IsNaN(x) /\ IsNaN(y)) \/ PctEq(x, y)

\* each of the four fees is 0 or absent
FeesCero(in) ==
  /\ IsZero(Default(in.arancelProcesador, Zero))
  /\ IsZero(Default(in.feeRiesgoProcesador, Zero))
  /\ IsZero(Default(in.adicionalCobrador, Zero))
  /\ IsZero(Default(in.impuestos, Zero))

\* tna + arancelProcesador + feeRiesgoProcesador + adicionalCobrador + impuestos,
\* an absent fee counting as 0
TnaResultante(in) ==
  Add(Add(Add(Add(in.tna, Default(in.arancelProcesador, Zero)),
              Default(in.feeRiesgoProcesador, Zero)),
          Default(in.adicionalCobrador, Zero)),
      Default(in.impuestos, Zero))

\* the input violates a validation rule
ReglaViolada(in) ==
  \/ Leq(in.importe, Zero)
  \/ Leq(in.cuotas, Zero)
  \/ ~NumberIsInteger(in.cuotas)
  \/ Lt(in.tna, Zero)

\* the errorMessage of the validator of the variant m
MensajeDelValidador(m, in) ==
  IF m = "FiservV1" THEN validarDatosEntrada_F1(in).errorMessage
  ELSE IF m = "FiservV2" THEN validarDatosEntrada_F2(in).errorMessage
  ELSE validarDatosEntrada_P(in).errorMessage

\* C1: an invocation on an input that violates a validation rule ends in an error
\* whose message is the validator's errorMessage; validation is the only step it
\* evaluated (no resultant rate, no monthly rate, no division) and it leaves no result.
C1_InvalidoSoloError ==
  (estado # "listo" /\ ReglaViolada(inputUsuario)) =>
    /\ estado = "error"
    /\ mensajeError = MensajeDelValidador(metodo, inputUsuario)
    /\ mensajeError \in {MsgImporte, MsgCuotas, MsgTna}
    /\ resultados = <<>>
    /\ pasos = <<"validarDatosEntrada">>
    /\ divisores = {}
    /\ tnaUsada = Undefined
    /\ temUsada = Undefined

\* Method B has thrown on a number of instalments that is not an integer
C1_Testigo ==
  /\ estado = "error"
  /\ metodo = "Procesador"
  /\ ~NumberIsInteger(inputUsuario.cuotas)
  /\ mensajeError = MsgCuotas
  /\ resultados = <<>>

\* C2: once the validator has accepted the input, whatever the four fees hold, no
\* division of the invocation has a zero denominator.
C2_NingunDivisorCero == Retorno => \A d \in divisores : ~IsZero(d.den)

\* Method B has returned after dividing by factor28 * factor30^(i-1) = 0
C2_DivisorCeroAlcanzado ==
  /\ Retorno
  /\ metodo = "Procesador"
  /\ \E d \in divisores : d.en = "factor28Dias * factor30Elevado" /\ IsZero(d.den)

\* the invocation has returned for tna = 0 and all four fees 0
TasaCero == Retorno /\ IsZero(inputUsuario.tna) /\ FeesCero(inputUsuario)

\* C3 as stated: at tna = 0 with all four fees 0 the coefficient equals 1/N, in
\* every variant.
C3_CoeficienteUnoSobreN ==
  TasaCero => Eq(Resultado.coeficiente, Div(One, inputUsuario.cuotas))

\* C3 amended: at tna = 0 with all four fees 0 the coefficient is 1/N rounded half-up
\* to 6 decimals in Method B and in the rounding variant of Method A, and exactly 1/N
\* in the unrounded variant of Method A.
C3_CoeficienteUnoSobreNRedondeado ==
  TasaCero =>
    Eq(Resultado.coeficiente,
       IF metodo = "FiservV1" THEN Div(One, inputUsuario.cuotas)
       ELSE Round6(Div(One, inputUsuario.cuotas)))

\* Method B has returned 0.333333 for three instalments at rate 0
C3_Testigo ==
  /\ TasaCero
  /\ metodo = "Procesador"
  /\ Eq(inputUsuario.cuotas, Z(3))
  /\ Eq(Resultado.coeficiente, Q(333333, 1000 * 1000))

\* the reciprocal of the arithmetic mean of calcularCoeficienteCuota(tna, i), i = 1..n
InversaDeLaMedia(tna, n) == Div(One, Div(sumarCoeficientes(tna, n, 1, Zero), Z(n)))

RetornoProcesador == Retorno /\ metodo = "Procesador"

C5_IdaYVuelta ==
  Retorno =>
    /\ Leq(Abs(Sub(Sub(Resultado.montoTotal, Resultado.interesTotal),
                   inputUsuario.importe)), Tol2)
    /\ Leq(Abs(Sub(Sub(Resultado.montoTotalConIVA, Resultado.interesTotalConIVA),
                   inputUsuario.importe)), Tol2)

\* an invocation has returned an infinite montoTotal
C5_MontoInfinito == Retorno /\ Resultado.montoTotal.k = "inf"

\* none of the four measures of r1 exceeds that of r2
NoDecrece(r1, r2) ==
  /\ Leq(r1.coeficiente, r2.coeficiente)
  /\ Leq(r1.tasaDirecta, r2.tasaDirecta)
  /\ PctLeq(r1.tea, r2.tea)
  /\ PctLeq(r1.cft, r2.cft)

\* C6: of two invocations on valid inputs that differ in tna only, the one with the
\* smaller tna returns the smaller or equal coeficiente, tasaDirecta, tea and cft.
C6_Monotonia ==
  \A i \in 1..Len(previas) :
    (Retorno /\ previas[i].estado = "retorno") =>
      /\ Leq(previas[i].input.tna, inputUsuario.tna) =>
           NoDecrece(previas[i].resultado[1], Resultado)
      /\ Leq(inputUsuario.tna, previas[i].input.tna) =>
           NoDecrece(Resultado, previas[i].resultado[1])

\* Method A has returned a smaller finite coeficiente for a larger tna
C6_CoeficienteDecrece ==
  /\ Retorno
  /\ metodo = "FiservV2"
  /\ \E i \in 1..Len(previas) :
       /\ Lt(previas[i].input.tna, inputUsuario.tna)
       /\ IsFinite(Resultado.coeficiente)
       /\ Lt(Resultado.coeficiente, previas[i].resultado[1].coeficiente)

\* C7: for every valid input with a non-zero coeficiente, coeficienteConIVA is
\* coeficiente * 1.21 rounded half-up to 6 decimals, and it is at most 0.0000005
\* away from 1.21 * coeficiente.
C7_ConsistenciaIVA ==
  (Retorno /\ ~IsZero(Resultado.coeficiente)) =>
    /\ Eq(Resultado.coeficienteConIVA, Round6(Mul(Resultado.coeficiente, Q(121, 100))))
    /\ Leq(Abs(Sub(Resultado.coeficienteConIVA,
                   Mul(Q(121, 100), Resultado.coeficiente))), Tol6)

\* an invocation has returned an infinite coeficiente
C7_CoeficienteInfinito == Retorno /\ Resultado.coeficiente.k = "inf"

C9_TasaResultante ==
  RetornoProcesador =>
    /\ Igual(tnaUsada, TnaResultante(inputUsuario))
    /\ Igual(Resultado.coeficiente,
             calcularCoeficiente_P(TnaResultante(inputUsuario), inputUsuario.cuotas))
    /\ Igual(Resultado.tea,
             calcularTEA_P(inputUsuario.importe, inputUsuario.cuotas,
                           TnaResultante(inputUsuario)))
    /\ Igual(Resultado.cft,
             calcularCFT_P(inputUsuario.importe, inputUsuario.cuotas,
                           TnaResultante(inputUsuario)))
    /\ Len(Resultado.detallesPorCuota) = ToInt(inputUsuario.cuotas)
    /\ \A i \in 1..Len(Resultado.detallesPorCuota) :
         /\ Igual(Resultado.detallesPorCuota[i].tnaResultante,
                  TnaResultante(inputUsuario))
         /\ Igual(Resultado.detallesPorCuota[i].coeficiente,
                  Round6(calcularCoeficienteCuota(TnaResultante(inputUsuario), i)))

\* Method B has returned for tna 50 and the fees 5, 2, 3 and 4: every one of three
\* details reports 64
C9_Testigo ==
  /\ RetornoProcesador
  /\ Eq(inputUsuario.tna, Z(50))
  /\ Eq(Default(inputUsuario.impuestos, Zero), Z(4))
  /\ Len(Resultado.detallesPorCuota) = 3
  /\ \A i \in 1..3 : Eq(Resultado.detallesPorCuota[i].tnaResultante, Z(64))

\* C10: whenever one of the four fees is not 0, Method A derives the monthly rate
\* from the resultant rate: tem = ((tna + fees) / 100) / 12.
C10_TemDeLaTasaResultante ==
  (Retorno /\ metodo \in {"FiservV1", "FiservV2"} /\ ~FeesCero(inputUsuario)) =>
    Eq(temUsada, Div(Div(TnaResultante(inputUsuario), Cien), Z(12)))

\* the first variant of Method A has returned with tem = (tna / 100) / 12 although
\* the fees add up to 14
C10_FeesIgnorados ==
  /\ Retorno
  /\ metodo = "FiservV1"
  /\ Eq(Sub(TnaResultante(inputUsuario), inputUsuario.tna), Z(14))
  /\ Eq(temUsada, Div(Div(inputUsuario.tna, Cien), Z(12)))

\* the rules the input violates, in the order importe, cuotas, tna
ViolaImporte(in) == Leq(in.importe, Zero)
ViolaCuotas(in)  == Leq(in.cuotas, Zero) \/ ~NumberIsInteger(in.cuotas)
ViolaTna(in)     == Lt(in.tna, Zero)

\* the message of the first violated rule
PrimerMensaje(in) ==
  IF ViolaImporte(in) THEN MsgImporte
  ELSE IF ViolaCuotas(in) THEN MsgCuotas
  ELSE MsgTna

\* C11: when the input violates one or more rules, the validator of every variant
\* reports the message of the first violated rule in the order importe, cuotas, tna,
\* and that single message is what the invocation throws: never two messages joined.
C11_PrimeraReglaGana ==
  ReglaViolada(inputUsuario) =>
    /\ \A m \in {"FiservV1", "FiservV2", "Procesador"} :
         MensajeDelValidador(m, inputUsuario) = PrimerMensaje(inputUsuario)
    /\ estado # "listo" =>
         /\ estado = "error"
         /\ mensajeError = PrimerMensaje(inputUsuario)

\* an invocation has thrown the importe message on an input that violates all three
\* rules
C11_Testigo ==
  /\ estado = "error"
  /\ metodo = "FiservV2"
  /\ ViolaImporte(inputUsuario)
  /\ ViolaCuotas(inputUsuario)
  /\ ViolaTna(inputUsuario)
  /\ mensajeError = MsgImporte

\* the ValidationResult of the validator of the variant m
Validacion(m, in) ==
  IF m = "FiservV1" THEN validarDatosEntrada_F1(in)
  ELSE IF m = "FiservV2" THEN validarDatosEntrada_F2(in)
  ELSE validarDatosEntrada_P(in)

\* importe > 0, cuotas an integer > 0, tna >= 0
Aceptable(in) ==
  /\ Gt(in.importe, Zero)
  /\ NumberIsInteger(in.cuotas)
  /\ Gt(in.cuotas, Zero)
  /\ Geq(in.tna, Zero)

\* the validator of every variant accepts exactly the acceptable inputs and gives an
\* errorMessage exactly when it rejects; the invocation returns exactly when its
\* validator accepted
C12_Veredicto ==
  /\ \A m \in {"FiservV1", "FiservV2", "Procesador"} :
       /\ Validacion(m, inputUsuario).isValid <=> Aceptable(inputUsuario)
       /\ Validacion(m, inputUsuario).errorMessage # ""
            <=> ~Validacion(m, inputUsuario).isValid
  /\ estado # "listo" => (estado = "retorno" <=> Aceptable(inputUsuario))

Factor28(rate) == Add(One, Mul(Div(rate, Cien), Q(28, 360)))

\* Method B has returned for one instalment at a resultant rate > 0
UnaCuota == RetornoProcesador /\ Eq(inputUsuario.cuotas, One) /\ Gt(tnaUsada, Zero)

\* C13: in Method B with cuotas = 1 and a resultant rate > 0, the discount coefficient
\* behind the coeficiente, behind the financial cost (so behind cft) and in the single
\* detail record is 1 / (1 + (rate/100) * 28/360); the only discount denominator the
\* invocation formed is the 28-day factor, none involves the 30-day factor.
C13_SoloFactor28 ==
  UnaCuota =>
    /\ Eq(Resultado.coeficiente, Round6(Div(One, Div(One, Factor28(tnaUsada)))))
    /\ Eq(Resultado.cft, Mul(Sub(One, Div(One, Factor28(tnaUsada))), Cien))
    /\ Len(Resultado.detallesPorCuota) = 1
    /\ Eq(Resultado.detallesPorCuota[1].coeficiente,
          Round6(Div(One, Factor28(tnaUsada))))
    /\ \E d \in divisores : d.en = "factor28Dias" /\ Eq(d.den, Factor28(tnaUsada))
    /\ \A d \in divisores : d.en # "factor28Dias * factor30Elevado"

\* Method B has returned for one instalment at the resultant rate 50: the detail
\* record carries 0.962567
C13_Testigo ==
  /\ UnaCuota
  /\ Eq(tnaUsada, Z(50))
  /\ Eq(Resultado.detallesPorCuota[1].coeficiente, Q(962567, 1000 * 1000))

\* 1 + (rate / 100) * 30 / 360
Factor30(rate) == Add(One, Mul(Div(rate, Cien), Q(30, 360)))

\* the discount coefficient at index k: 1 / factor28 for k = 1,
\* 1 / (factor28 * factor30^(k-1)) for k > 1
Descuento(rate, k) ==
  IF k = 1 THEN Div(One, Factor28(rate))
  ELSE Div(One, Mul(Factor28(rate), PowInt(Factor30(rate), k - 1)))

\* C14: for every valid input of Method B, detallesPorCuota has exactly cuotas
\* records; the k-th has numeroCuota = k, coeficiente equal to the 6-decimal rounding
\* of the discount coefficient at index k, and coeficienteConIVA equal to the
\* 6-decimal rounding of that discount coefficient times 1.21.
C14_DetallesPorCuota ==
  RetornoProcesador =>
    /\ Len(Resultado.detallesPorCuota) = ToInt(inputUsuario.cuotas)
    /\ \A k \in 1..Len(Resultado.detallesPorCuota) :
         /\ Resultado.detallesPorCuota[k].numeroCuota = k
         /\ Igual(Resultado.detallesPorCuota[k].coeficiente,
                  Round6(Descuento(tnaUsada, k)))
         /\ Igual(Resultado.detallesPorCuota[k].coeficienteConIVA,
                  Round6(Mul(Descuento(tnaUsada, k), Q(121, 100))))

\* Method B has returned three records at the resultant rate 50: the third carries
\* numeroCuota 3, coeficiente 0.887102 and coeficienteConIVA 1.073393
C14_Testigo ==
  /\ RetornoProcesador
  /\ Eq(tnaUsada, Z(50))
  /\ Len(Resultado.detallesPorCuota) = 3
  /\ Resultado.detallesPorCuota[3].numeroCuota = 3
  /\ Eq(Resultado.detallesPorCuota[3].coeficiente, Q(887102, 1000 * 1000))
  /\ Eq(Resultado.detallesPorCuota[3].coeficienteConIVA, Q(1073393, 1000 * 1000))

\* C15: in Method B every record of detallesPorCuota carries the aggregate values
\* unchanged: its cuota is the result's cuota (the same at every index), its tea, cft
\* and tasaDirecta are the result's, its importe is the input's importe and its
\* tnaResultante is the resultant rate.
C15_DetallesLlevanElAgregado ==
  RetornoProcesador =>
    \A k \in 1..Len(Resultado.detallesPorCuota) :
      /\ Resultado.detallesPorCuota[k].cuota = Resultado.cuota
      /\ Resultado.detallesPorCuota[k].tea = Resultado.tea
      /\ Resultado.detallesPorCuota[k].cft = Resultado.cft
      /\ Resultado.detallesPorCuota[k].tasaDirecta = Resultado.tasaDirecta
      /\ Resultado.detallesPorCuota[k].importe = inputUsuario.importe
      /\ Resultado.detallesPorCuota[k].tnaResultante = tnaUsada
      /\ Igual(Resultado.detallesPorCuota[k].tnaResultante, TnaResultante(inputUsuario))

\* Method B has returned three records for importe 99.99 at the resultant rate 64,
\* each with the cuota of the result, a finite amount that is not importe * coeficiente
C15_Testigo ==
  /\ RetornoProcesador
  /\ Eq(inputUsuario.importe, Q(9999, 100))
  /\ Eq(tnaUsada, Z(64))
  /\ Len(Resultado.detallesPorCuota) = 3
  /\ IsFinite(Resultado.cuota)
  /\ ~Eq(Resultado.cuota, Mul(inputUsuario.importe, Resultado.coeficiente))
  /\ \A k \in 1..3 : Resultado.detallesPorCuota[k].cuota = Resultado.cuota

\* the sum over i = desde..n of the discount coefficient at index i
RECURSIVE SumaDescuentos(_, _, _)
SumaDescuentos(rate, desde, n) ==
  IF desde > n THEN Zero
  ELSE Add(Descuento(rate, desde), SumaDescuentos(rate, desde + 1, n))

\* (1 - (1/N) * sum of the discount coefficients) * 100
CftDeLaFormula(rate, n) ==
  Mul(Sub(One, Mul(Div(One, Z(n)), SumaDescuentos(rate, 1, n))), Cien)

\* C16: for every valid input of Method B, cft = (1 - (1/N) * sum over i = 1..N of
\* the discount coefficient at index i) * 100, which is (financialCost / importe) * 100
\* with financialCost = importe * (1 - mean discount coefficient); the value is a
\* function of the resultant rate and N alone: another importe gives the same cft.
C16_CftDelCostoFinanciero ==
  RetornoProcesador =>
    /\ Igual(Resultado.cft, CftDeLaFormula(tnaUsada, ToInt(inputUsuario.cuotas)))
    /\ Igual(Resultado.cft,
             Mul(Div(calcularCostoFinanciero(inputUsuario.importe, inputUsuario.cuotas,
                                             tnaUsada),
                     inputUsuario.importe), Cien))
    /\ Igual(Resultado.cft, calcularCFT_P(One, inputUsuario.cuotas, tnaUsada))

\* Method B has returned cft = 7.542246 (at 6 decimals) for importe 99.99, three
\* instalments and the resultant rate 50
C16_Testigo ==
  /\ RetornoProcesador
  /\ Eq(inputUsuario.importe, Q(9999, 100))
  /\ Eq(inputUsuario.cuotas, Z(3))
  /\ Eq(tnaUsada, Z(50))
  /\ Eq(Round6(Resultado.cft), Q(7542246, 1000 * 1000))

\* x is an exact multiple of 0.01, of 0.000001
EnCentavos(x)   == NumberIsInteger(Mul(x, Cien))
EnMillonesimos(x) == NumberIsInteger(Mul(x, Millon))

\* C17: in every result of calcularFinanciamiento, of Method A and of Method B, cuota,
\* cuotaConIVA, montoTotal, montoTotalConIVA, interesTotal and interesTotalConIVA are
\* exact multiples of 0.01 and coeficiente and coeficienteConIVA exact multiples of
\* 0.000001, each the half-up rounding of its formula.
C17_RejillaDeRedondeo ==
  Retorno =>
    /\ EnMillonesimos(Resultado.coeficiente)
    /\ EnMillonesimos(Resultado.coeficienteConIVA)
    /\ EnCentavos(Resultado.cuota)
    /\ EnCentavos(Resultado.cuotaConIVA)
    /\ EnCentavos(Resultado.montoTotal)
    /\ EnCentavos(Resultado.montoTotalConIVA)
    /\ EnCentavos(Resultado.interesTotal)
    /\ EnCentavos(Resultado.interesTotalConIVA)
    /\ Eq(Resultado.coeficienteConIVA, Round6(Mul(Resultado.coeficiente, Q(121, 100))))
    /\ Eq(Resultado.cuota, Round2(Mul(inputUsuario.importe, Resultado.coeficiente)))
    /\ Eq(Resultado.cuotaConIVA,
          Round2(Mul(inputUsuario.importe, Resultado.coeficienteConIVA)))
    /\ Eq(Resultado.montoTotal, Round2(Mul(Resultado.cuota, inputUsuario.cuotas)))
    /\ Eq(Resultado.montoTotalConIVA,
          Round2(Mul(Resultado.cuotaConIVA, inputUsuario.cuotas)))
    /\ Eq(Resultado.interesTotal,
          Round2(Sub(Resultado.montoTotal, inputUsuario.importe)))
    /\ Eq(Resultado.interesTotalConIVA,
          Round2(Sub(Resultado.montoTotalConIVA, inputUsuario.importe)))

\* the first variant of Method A has returned, for fee-free input, a finite cuota
\* that is not a multiple of 0.01 and a coeficiente that is not a multiple of 0.000001
C17_CuotaFueraDeLaRejilla ==
  /\ Retorno
  /\ metodo = "FiservV1"
  /\ FeesCero(inputUsuario)
  /\ IsFinite(Resultado.cuota)
  /\ ~EnCentavos(Resultado.cuota)
  /\ IsFinite(Resultado.coeficiente)
  /\ ~EnMillonesimos(Resultado.coeficiente)

\* C18: for every valid input, montoTotal is cuotas * cuota exactly, a whole number of
\* cents, and montoTotalConIVA is cuotas * cuotaConIVA exactly, where cuota is
\* importe * coeficiente rounded half-up to 2 decimals and cuotaConIVA is
\* importe * coeficienteConIVA rounded half-up to 2 decimals.
C18_TotalDeLaCuotaRedondeada ==
  Retorno =>
    /\ Eq(Resultado.cuota, Round2(Mul(inputUsuario.importe, Resultado.coeficiente)))
    /\ Eq(Resultado.cuotaConIVA,
          Round2(Mul(inputUsuario.importe, Resultado.coeficienteConIVA)))
    /\ Eq(Resultado.montoTotal, Mul(inputUsuario.cuotas, Resultado.cuota))
    /\ EnCentavos(Resultado.montoTotal)
    /\ Eq(Resultado.montoTotalConIVA, Mul(inputUsuario.cuotas, Resultado.cuotaConIVA))
    /\ EnCentavos(Resultado.montoTotalConIVA)

\* Method B has returned an infinite cuota and an infinite montoTotal: no number of
\* cents
C18_TotalSinCentavos ==
  /\ RetornoProcesador
  /\ Resultado.cuota.k = "inf"
  /\ Resultado.montoTotal.k = "inf"
  /\ ~EnCentavos(Resultado.montoTotal)

\* the invocation has returned for importe 10000, cuotas 12, tna 120 and no fees
EjemploMetodoA ==
  /\ Retorno
  /\ metodo \in {"FiservV1", "FiservV2"}
  /\ Eq(inputUsuario.importe, Z(10000))
  /\ Eq(inputUsuario.cuotas, Z(12))
  /\ Eq(inputUsuario.tna, Z(120))
  /\ FeesCero(inputUsuario)

\* C19 as stated: for importe 10000, cuotas 12, tna 120 and no fees, Method A yields
\* tem = 0.10, coeficiente = 0.146824 at 6 decimals, cuota = 1468.24 and tea = 213.84
\* at 2 decimals.
C19_EjemploComoEscrito ==
  EjemploMetodoA =>
    /\ Eq(temUsada, Q(1, 10))
    /\ Eq(Round6(Resultado.coeficiente), Q(146824, 1000 * 1000))
    /\ Eq(Round2(Resultado.cuota), Q(146824, 100))
    /\ Eq(Round2(Resultado.tea), Q(21384, 100))

\* C19 amended: for importe 10000, cuotas 12, tna 120 and no fees, Method A yields
\* tem = 0.10, coeficiente = 0.146763 at 6 decimals, cuota = 1467.63 and tea = 213.84
\* at 2 decimals.
C19_EjemploMetodoA ==
  EjemploMetodoA =>
    /\ Eq(temUsada, Q(1, 10))
    /\ Eq(Round6(Resultado.coeficiente), Q(146763, 1000 * 1000))
    /\ Eq(Round2(Resultado.cuota), Q(146763, 100))
    /\ Eq(Round2(Resultado.tea), Q(21384, 100))

\* the rounding variant of Method A has returned coeficiente 0.146763 and cuota
\* 1467.63 for the example
C19_Testigo ==
  /\ EjemploMetodoA
  /\ metodo = "FiservV2"
  /\ Eq(Resultado.coeficiente, Q(146763, 1000 * 1000))
  /\ Eq(Resultado.cuota, Q(146763, 100))

\* x rounded half-up to 4 decimals
Round4(x) == Div(MathRound(Mul(x, Z(10 * 1000))), Z(10 * 1000))

\* Method B has returned for importe 10000, cuotas 3, tna 50 and no fees
EjemploMetodoB ==
  /\ RetornoProcesador
  /\ Eq(inputUsuario.importe, Z(10000))
  /\ Eq(inputUsuario.cuotas, Z(3))
  /\ Eq(inputUsuario.tna, Z(50))
  /\ FeesCero(inputUsuario)

\* the financial cost calcularCostoFinanciero returns for the invocation's input
CostoDelEjemplo ==
  calcularCostoFinanciero(inputUsuario.importe, inputUsuario.cuotas, tnaUsada)

DoceCuotasMetodoA ==
  /\ Retorno
  /\ metodo \in {"FiservV1", "FiservV2"}
  /\ Eq(inputUsuario.cuotas, Z(12))

C23_ComoSiCorrieraSola ==
  \A p \in DOMAIN llamadas :
    /\ llamadas[p].pc = "retorno" =>
         /\ ~Invocar("Procesador", llamadas[p].input).lanzo
         /\ llamadas[p].resultado = Invocar("Procesador", llamadas[p].input).resultado
    /\ llamadas[p].pc = "lanzado" =>
         /\ Invocar("Procesador", llamadas[p].input).lanzo
         /\ llamadas[p].error = Invocar("Procesador", llamadas[p].input).error

\* a step changes the local variables of one invocation only, and what it leaves
\* there is determined by what that invocation's own locals held
C23_PasoLocal ==
  \A p \in DOMAIN llamadas :
    \/ llamadas'[p] = llamadas[p]
    \/ /\ llamadas'[p] = avanzar(llamadas[p])
       /\ \A q \in DOMAIN llamadas \ {p} : llamadas'[q] = llamadas[q]

\* C23: under every interleaving of the steps of two invocations of
\* calcularFinanciamiento, each invocation returns the result (or throws the error) it
\* produces when run alone, and no step of one invocation reads or writes a local
\* variable (sumaCoeficientes, i, detalles) of the other.
C23_InvocacionesIndependientes ==
  []C23_ComoSiCorrieraSola /\ [][C23_PasoLocal]_vars

\* the invocation "a" has returned three detail records while "b", on another input,
\* is inside the loop of calcularCostoFinanciero with a non-zero accumulator
C23_Testigo ==
  /\ DOMAIN llamadas = Llamadas
  /\ llamadas["a"].pc = "retorno"
  /\ Len(llamadas["a"].resultado[1].detallesPorCuota) = 3
  /\ llamadas["b"].input # llamadas["a"].input
  /\ llamadas["b"].pc = "calcularCostoFinanciero"
  /\ llamadas["b"].i = 2
  /\ ~IsZero(llamadas["b"].sumaCoeficientes)

\* Method B has returned at the resultant rate 0
ProcesadorTasaCero == RetornoProcesador /\ IsZero(tnaUsada)

\* C24: at the resultant rate 0 and for every N, the general computation
\* calcularCoeficientePromedio(0, N) returns what the special case of
\* calcularCoeficiente(0, N) returns, 1/N rounded to 6 decimals, so that removing the
\* special case would change no result.
C24_CasoEspecialCoincide ==
  ProcesadorTasaCero =>
    /\ Eq(Resultado.coeficiente, Round6(Div(One, inputUsuario.cuotas)))
    /\ Eq(calcularCoeficientePromedio(tnaUsada, inputUsuario.cuotas),
          Resultado.coeficiente)

\* Method B has returned 0.333333 for three instalments at rate 0, where
\* calcularCoeficientePromedio(0, 3) is 1
C24_GeneralDaUno ==
  /\ ProcesadorTasaCero
  /\ Eq(inputUsuario.cuotas, Z(3))
  /\ Eq(Resultado.coeficiente, Q(333333, 1000 * 1000))
  /\ Eq(calcularCoeficientePromedio(tnaUsada, inputUsuario.cuotas), One)

\* none of the four fees is negative (an absent fee counts as 0)
FeesNoNegativos(in) ==
  /\ Geq(Default(in.arancelProcesador, Zero), Zero)
  /\ Geq(Default(in.feeRiesgoProcesador, Zero), Zero)
  /\ Geq(Default(in.adicionalCobrador, Zero), Zero)
  /\ Geq(Default(in.impuestos, Zero), Zero)

\* C25: for every valid input with non-negative fees, tna = 0 included, interesTotal
\* and interesTotalConIVA are >= 0 (the rounded total payable is never below the
\* principal), in Method A and in Method B.
C25_InteresNoNegativo ==
  (Retorno /\ FeesNoNegativos(inputUsuario)) =>
    /\ Geq(Resultado.interesTotal, Zero)
    /\ Geq(Resultado.interesTotalConIVA, Zero)

\* Method B has returned interesTotal = -0.01 for importe 10000 in three instalments
\* at tna 0 without fees: montoTotal is 3 * 3333.33 = 9999.99
C25_InteresNegativo ==
  /\ RetornoProcesador
  /\ FeesCero(inputUsuario)
  /\ IsZero(inputUsuario.tna)
  /\ Eq(inputUsuario.cuotas, Z(3))
  /\ Eq(Resultado.montoTotal, Q(999999, 100))
  /\ Eq(Resultado.interesTotal, Q(-1, 100))

\* C26 as stated: in Method B the coeficiente is >= 1 for every valid input with a
\* resultant rate > 0, and it is 1/N at the resultant rate 0.
C26_CotaYUnoSobreN ==
  RetornoProcesador =>
    /\ Gt(tnaUsada, Zero) => Geq(Resultado.coeficiente, One)
    /\ IsZero(tnaUsada) => Eq(Resultado.coeficiente, Div(One, inputUsuario.cuotas))

\* C26 amended: in Method B the coeficiente is >= 1 for every valid input with a
\* resultant rate > 0, and at the resultant rate 0 it is 1/N rounded half-up to 6
\* decimals, which is at most 1.
C26_CotaInferior ==
  RetornoProcesador =>
    /\ Gt(tnaUsada, Zero) => Geq(Resultado.coeficiente, One)
    /\ IsZero(tnaUsada) =>
         /\ Eq(Resultado.coeficiente, Round6(Div(One, inputUsuario.cuotas)))
         /\ Leq(Resultado.coeficiente, One)

\* Method B has returned a coeficiente between 1 and 2 for three instalments at the
\* resultant rate 134
C26_Testigo ==
  /\ RetornoProcesador
  /\ Eq(tnaUsada, Z(134))
  /\ Eq(inputUsuario.cuotas, Z(3))
  /\ Gt(Resultado.coeficiente, One)
  /\ Lt(Resultado.coeficiente, Z(2))

\* C27: for every resultant rate > 0 and every index i, the discount coefficients
\* satisfy 0 < calcularCoeficienteCuota(rate, i+1) < calcularCoeficienteCuota(rate, i)
\* < 1, the later one being the earlier one divided by factor30 = 1 + (rate/100) *
\* 30/360; at rate 0 every coefficient is 1.  Stated at the resultant rate of each
\* invocation of Method B, for i up to the largest number of instalments.
C27_DescuentosDecrecientes ==
  RetornoProcesador =>
    \A i \in 1..MaxCuotas :
      /\ Gt(tnaUsada, Zero) =>
           /\ Gt(calcularCoeficienteCuota(tnaUsada, i + 1), Zero)
           /\ Lt(calcularCoeficienteCuota(tnaUsada, i + 1),
                 calcularCoeficienteCuota(tnaUsada, i))
           /\ Lt(calcularCoeficienteCuota(tnaUsada, i), One)
           /\ Eq(calcularCoeficienteCuota(tnaUsada, i + 1),
                 Div(calcularCoeficienteCuota(tnaUsada, i), Factor30(tnaUsada)))
      /\ IsZero(tnaUsada) =>
           /\ Eq(calcularCoeficienteCuota(tnaUsada, i), One)
           /\ Eq(calcularCoeficienteCuota(tnaUsada, i + 1), One)

\* Method B has returned at the resultant rate 120 with three detail records whose
\* coefficients decrease: 0.914634, 0.831486, 0.755896
C27_Testigo ==
  /\ RetornoProcesador
  /\ Eq(tnaUsada, Z(120))
  /\ Len(Resultado.detallesPorCuota) = 3
  /\ Eq(Round6(calcularCoeficienteCuota(tnaUsada, 1)), Q(914634, 1000 * 1000))
  /\ Eq(Round6(calcularCoeficienteCuota(tnaUsada, 2)), Q(831486, 1000 * 1000))
  /\ Eq(Round6(calcularCoeficienteCuota(tnaUsada, 3)), Q(755896, 1000 * 1000))

\* (28 + 30 * (cuotas - 1)) / 360
Anios(cuotas) == Div(Add(Z(28), Mul(Z(30), Sub(cuotas, One))), Z(360))

\* ((importe + costoFinanciero) / importe)^(1 / anios) - 1) * 100
TeaAnualizada(importe, cuotas, rate) ==
  PowMenos1Por100(Div(Add(importe, calcularCostoFinanciero(importe, cuotas, rate)),
                      importe),
                  Div(One, Anios(cuotas)))

C29_Mostrado ==
  estado # "listo" =>
    \/ /\ estado = "retorno"
       /\ app.error = ""
       /\ Len(app.resultados) = 1 /\ app.resultados = resultados
       /\ app.inputUsuario = <<inputUsuario>>
    \/ /\ estado = "error"
       /\ app.error # "" /\ app.error = mensajeError
       /\ app.resultados = <<>>
       /\ app.inputUsuario = <<>>

\* C29, second half: a call that fails leaves no result displayed, whatever was
\* displayed before, and a call that succeeds leaves no error.
C29_CadaLlamada ==
  /\ estado' = "error" => app'.resultados = <<>> /\ app'.inputUsuario = <<>>
  /\ estado' = "retorno" => app'.error = ""

C29_EstadoDeApp == []C29_Mostrado /\ [][C29_CadaLlamada]_vars

\* a failure right after a success, and a success right after a failure
C29_Testigo ==
  /\ Len(previas) = 2
  /\ previas[1].estado = "retorno"
  /\ previas[2].estado = "error"
  /\ estado = "retorno"
  /\ app.error = ""
  /\ Len(app.resultados) = 1

\* only digits, with at most one dot
SoloDigitosYUnPunto(str) ==
  /\ \A i \in 1..Len(str) : str[i] \in Digitos \cup {"."}
  /\ Cardinality({i \in 1..Len(str) : str[i] = "."}) <= 1

CamposNumericos == {"importe", "tna"} \cup Porcentuales

\* the form has been submitted: inputUsuario is the input handed to onCalculate
Enviado == metodo = "Procesador" /\ estado = "listo"

FinitoNoNegativo(x) == IsFinite(x) /\ Geq(x, Zero)

\* the cuotas state is the string of one of the eight buttons' numbers and every
\* numeric field holds only digits with at most one dot
C30_Campos ==
  /\ \E n \in Botones : form.cuotas = toString(n)
  /\ \A c \in CamposNumericos : SoloDigitosYUnPunto(form[c])

\* every input handed to onCalculate has cuotas a positive integer and importe, tna
\* and the four fees >= 0 and not NaN
C30_NiNegativoNiNaN ==
  Enviado =>
    /\ NumberIsInteger(inputUsuario.cuotas) /\ Gt(inputUsuario.cuotas, Zero)
    /\ \A c \in CamposNumericos : Geq(inputUsuario[c], Zero)

\* C30: after any sequence of field changes and button clicks, cuotas is the string of
\* a member of {1, 2, 3, 6, 9, 12, 18, 24} and each numeric field holds only digits with
\* at most one dot, so every input handleSubmit passes to onCalculate has cuotas a
\* positive integer and importe, tna and the four fees finite and >= 0.
C30_FormularioProcesador ==
  /\ C30_Campos
  /\ Enviado =>
       /\ NumberIsInteger(inputUsuario.cuotas) /\ Gt(inputUsuario.cuotas, Zero)
       /\ \A c \in CamposNumericos : FinitoNoNegativo(inputUsuario[c])

\* the importe field held '1' followed by 309 zeros, only digits, and the input handed
\* to onCalculate has importe = Infinity
C30_ImporteInfinito ==
  /\ Enviado
  /\ form.importe = Enorme
  /\ SoloDigitosYUnPunto(form.importe)
  /\ inputUsuario.importe = Infinity
====
